---- MODULE Spec2Model ----
(***************************************************************************)
(* The three binary search trees of src/Output (binary_search_tree_en.py,  *)
(* binary_search_tree_Ja.py, binary_search_tree_mix.py), each modelled as  *)
(* a heap of node objects, driven by the same sequence of calls.           *)
(*                                                                         *)
(* Python values are encoded as integers: None is 0, the int n >= 1 is n,  *)
(* and a value of type str is a negative number.  A tree object is a       *)
(* record [root, nodes] where nodes maps each live node identity to its    *)
(* fields; the en tree also carries _size as the field size.               *)
(***************************************************************************)
EXTENDS Integers, Sequences, FiniteSets, TLC

\* ------------------------------------------------------------------ bounds
MaxVal == 3
MaxNodes == 3
MaxKept == 2
MaxDeleted == 2
MaxVisits == 3
MaxLines == 4

\* ------------------------------------------------------------ Python values
None == 0
StrA == -1

IntValues == 1..MaxVal
AllValues == IntValues \cup {None, StrA}

PyType(x) == IF x = None THEN "NoneType" ELSE IF x < 0 THEN "str" ELSE "int"

\* x < y and x > y raise TypeError unless both operands are of one orderable type
CanOrder(x, y) == PyType(x) = PyType(y) /\ PyType(x) # "NoneType"

NoExc == "none"

Return(t, v) == [tree |-> t, exc |-> NoExc, ret |-> v]
Raise(t, e) == [tree |-> t, exc |-> e, ret |-> None]

\* ------------------------------------------------------------- node objects
NewId(t) == CHOOSE i \in 1..(Cardinality(DOMAIN t.nodes) + 1) :
              /\ i \notin DOMAIN t.nodes
              /\ \A j \in 1..(i - 1) : j \in DOMAIN t.nodes

TreeNode(value) == [value |-> value, left |-> None, right |-> None]

Children(t, X) == {c \in DOMAIN t.nodes : \E n \in X \cap DOMAIN t.nodes :
                     t.nodes[n].left = c \/ t.nodes[n].right = c}

RECURSIVE ReachFrom(_, _)
ReachFrom(t, X) == LET Y == X \cup Children(t, X)
                   IN IF Y = X THEN X ELSE ReachFrom(t, Y)

Reach(t) == IF t.root = None THEN {} ELSE ReachFrom(t, {t.root})

\* the value a node holds (data in the Ja variant, value in the others)
Key(t, n) == IF "data" \in DOMAIN t.nodes[n] THEN t.nodes[n].data ELSE t.nodes[n].value

\* a node object no reference leads to any more is released
Collect(t) == [t EXCEPT !.nodes = [n \in Reach(t) |-> t.nodes[n]]]

\* ------------------------------------------------------------- list objects
\* held: the list objects the caller still refers to, each with its items
NewList(held) == CHOOSE k \in 1..(Cardinality(DOMAIN held) + 1) :
                   /\ k \notin DOMAIN held
                   /\ \A j \in 1..(k - 1) : j \in DOMAIN held

\* a call's result that is the list object result, among the list objects lists
ReturnList(t, lists, result) == [tree |-> t, exc |-> NoExc, ret |-> result, lists |-> lists]

\* ------------------------------------------------ binary_search_tree_en.py
en_init == [root |-> None, size |-> 0, nodes |-> <<>>]

RECURSIVE en_insert_recursive(_, _, _)
en_insert_recursive(t, node, value) ==
  LET n == t.nodes[node] IN
  IF ~CanOrder(value, n.value) THEN Raise(t, "TypeError")
  ELSE IF value < n.value THEN
    IF n.left = None
    THEN LET id == NewId(t) IN
         Return([t EXCEPT !.nodes = [@ EXCEPT ![node].left = id] @@ (id :> TreeNode(value)),
                          !.size = @ + 1], None)
    ELSE en_insert_recursive(t, n.left, value)
  ELSE IF value > n.value THEN
    IF n.right = None
    THEN LET id == NewId(t) IN
         Return([t EXCEPT !.nodes = [@ EXCEPT ![node].right = id] @@ (id :> TreeNode(value)),
                          !.size = @ + 1], None)
    ELSE en_insert_recursive(t, n.right, value)
  ELSE Return(t, None)

\* a faulty insert: the node that becomes the root is not counted
en_insert_uncounted(t, value) ==
  IF value = None THEN Raise(t, "ValueError")
  ELSE IF t.root = None
  THEN LET id == NewId(t) IN
       Return([t EXCEPT !.root = id, !.nodes = @ @@ (id :> TreeNode(value))], None)
  ELSE en_insert_recursive(t, t.root, value)

en_insert(t, value) ==
  IF value = None THEN Raise(t, "ValueError")
  ELSE IF t.root = None
  THEN LET id == NewId(t) IN
       Return([t EXCEPT !.root = id, !.nodes = @ @@ (id :> TreeNode(value)),
                        !.size = @ + 1], None)
  ELSE en_insert_recursive(t, t.root, value)

RECURSIVE en_search_recursive(_, _, _)
en_search_recursive(t, node, value) ==
  IF node = None THEN Return(t, FALSE)
  ELSE LET n == t.nodes[node] IN
    IF value = n.value THEN Return(t, TRUE)
    ELSE IF ~CanOrder(value, n.value) THEN Raise(t, "TypeError")
    ELSE IF value < n.value THEN en_search_recursive(t, n.left, value)
    ELSE en_search_recursive(t, n.right, value)

en_search(t, value) ==
  IF value = None THEN Raise(t, "ValueError")
  ELSE IF t.root = None THEN Return(t, FALSE)
  ELSE en_search_recursive(t, t.root, value)

\* a faulty _find_min_value: the loop follows the right links
RECURSIVE en_find_min_value_right(_, _)
en_find_min_value_right(t, node) ==
  IF t.nodes[node].right # None THEN en_find_min_value_right(t, t.nodes[node].right)
  ELSE t.nodes[node].value

RECURSIVE en_find_min_value(_, _)
en_find_min_value(t, node) ==
  IF t.nodes[node].left # None THEN en_find_min_value(t, t.nodes[node].left)
  ELSE t.nodes[node].value

\* the result of _delete_recursive: the heap, the returned node, the returned
\* flag, and the exception raised (the heap is then as the raise left it)
DelRet(t, node, deleted) == [tree |-> t, node |-> node, deleted |-> deleted, exc |-> NoExc]
DelRaise(t, e) == [tree |-> t, node |-> None, deleted |-> FALSE, exc |-> e]

\* a faulty _delete_recursive: a matched node whose only child is the left one
\* is replaced by its right link
RECURSIVE en_delete_recursive_wrong_child(_, _, _)
en_delete_recursive_wrong_child(t, node, value) ==
  IF node = None THEN DelRet(t, None, FALSE)
  ELSE LET n == t.nodes[node] IN
    IF ~CanOrder(value, n.value) THEN DelRaise(t, "TypeError")
    ELSE IF value < n.value THEN
      LET r == en_delete_recursive_wrong_child(t, n.left, value) IN
      IF r.exc # NoExc THEN r
      ELSE DelRet([r.tree EXCEPT !.nodes[node].left = r.node], node, r.deleted)
    ELSE IF value > n.value THEN
      LET r == en_delete_recursive_wrong_child(t, n.right, value) IN
      IF r.exc # NoExc THEN r
      ELSE DelRet([r.tree EXCEPT !.nodes[node].right = r.node], node, r.deleted)
    ELSE IF n.left = None /\ n.right = None THEN DelRet(t, None, TRUE)
    ELSE IF n.left = None THEN DelRet(t, n.right, TRUE)
    ELSE IF n.right = None THEN DelRet(t, n.right, TRUE)
    ELSE LET successor_value == en_find_min_value(t, n.right)
             t1 == [t EXCEPT !.nodes[node].value = successor_value]
             r == en_delete_recursive_wrong_child(t1, n.right, successor_value)
         IN IF r.exc # NoExc THEN r
            ELSE DelRet([r.tree EXCEPT !.nodes[node].right = r.node], node, TRUE)

RECURSIVE en_delete_recursive(_, _, _)
en_delete_recursive(t, node, value) ==
  IF node = None THEN DelRet(t, None, FALSE)
  ELSE LET n == t.nodes[node] IN
    IF ~CanOrder(value, n.value) THEN DelRaise(t, "TypeError")
    ELSE IF value < n.value THEN
      LET r == en_delete_recursive(t, n.left, value) IN
      IF r.exc # NoExc THEN r
      ELSE DelRet([r.tree EXCEPT !.nodes[node].left = r.node], node, r.deleted)
    ELSE IF value > n.value THEN
      LET r == en_delete_recursive(t, n.right, value) IN
      IF r.exc # NoExc THEN r
      ELSE DelRet([r.tree EXCEPT !.nodes[node].right = r.node], node, r.deleted)
    ELSE IF n.left = None /\ n.right = None THEN DelRet(t, None, TRUE)
    ELSE IF n.left = None THEN DelRet(t, n.right, TRUE)
    ELSE IF n.right = None THEN DelRet(t, n.left, TRUE)
    ELSE LET successor_value == en_find_min_value(t, n.right)
             t1 == [t EXCEPT !.nodes[node].value = successor_value]
             r == en_delete_recursive(t1, n.right, successor_value)
         IN IF r.exc # NoExc THEN r
            ELSE DelRet([r.tree EXCEPT !.nodes[node].right = r.node], node, TRUE)

\* a faulty delete: the value is counted out before the descent, and the count
\* is not restored when the comparison fails
en_delete_counts_first(t, value) ==
  IF value = None THEN Raise(t, "ValueError")
  ELSE IF t.root = None THEN Return(t, FALSE)
  ELSE LET t0 == [t EXCEPT !.size = @ - 1]
           r == en_delete_recursive(t0, t0.root, value) IN
    IF r.exc # NoExc THEN Raise(Collect(r.tree), "TypeError")
    ELSE Return(Collect([r.tree EXCEPT !.root = r.node,
                                       !.size = IF r.deleted THEN @ ELSE @ + 1]),
                r.deleted)

en_delete(t, value) ==
  IF value = None THEN Raise(t, "ValueError")
  ELSE IF t.root = None THEN Return(t, FALSE)
  ELSE LET r == en_delete_recursive(t, t.root, value) IN
    IF r.exc # NoExc THEN Raise(Collect(r.tree), "TypeError")
    ELSE Return(Collect([r.tree EXCEPT !.root = r.node,
                                       !.size = IF r.deleted THEN @ - 1 ELSE @]),
                r.deleted)

en_find_minimum(t) ==
  IF t.root = None THEN Raise(t, "ValueError")
  ELSE Return(t, en_find_min_value(t, t.root))

\* a faulty loop of find_maximum: it stops at the first node
en_max_loop_stops(t, node) == t.nodes[node].value

RECURSIVE en_max_loop(_, _)
en_max_loop(t, node) ==
  IF t.nodes[node].right # None THEN en_max_loop(t, t.nodes[node].right)
  ELSE t.nodes[node].value

en_find_maximum(t) ==
  IF t.root = None THEN Raise(t, "ValueError")
  ELSE Return(t, en_max_loop(t, t.root))

\* a faulty _inorder_recursive: the node is appended before its left subtree
RECURSIVE en_inorder_recursive_preorder(_, _, _)
en_inorder_recursive_preorder(t, node, result) ==
  IF node # None
  THEN LET r1 == Append(result, t.nodes[node].value)
           r2 == en_inorder_recursive_preorder(t, t.nodes[node].left, r1)
       IN en_inorder_recursive_preorder(t, t.nodes[node].right, r2)
  ELSE result

RECURSIVE en_inorder_recursive(_, _, _)
en_inorder_recursive(t, node, result) ==
  IF node # None
  THEN LET r1 == en_inorder_recursive(t, t.nodes[node].left, result)
           r2 == Append(r1, t.nodes[node].value)
       IN en_inorder_recursive(t, t.nodes[node].right, r2)
  ELSE result

\* a faulty inorder_traversal: result is one list object, shared by every call
en_inorder_traversal_list_shared(t, held) ==
  LET result == 1
      lists == IF result \in DOMAIN held THEN held ELSE held @@ (result :> <<>>)
  IN ReturnList(t, [lists EXCEPT ![result] = en_inorder_recursive(t, t.root, @)], result)

\* inorder_traversal called by a program that holds the list objects held: result
\* is a new list object, filled by the recursion and returned
en_inorder_traversal_list(t, held) ==
  LET result == NewList(held)
      lists == held @@ (result :> <<>>)
  IN ReturnList(t, [lists EXCEPT ![result] = en_inorder_recursive(t, t.root, @)], result)

\* the items of the list inorder_traversal returns
en_inorder_traversal(t) == LET r == en_inorder_traversal_list(t, <<>>) IN Return(r.tree, r.lists[r.ret])

en_size(t) == Return(t, t.size)

en_is_empty(t) == Return(t, t.root = None)

\* a call of a method the class does not define
en_no_attribute(t) == Raise(t, "AttributeError")

\* ------------------------------------------------ binary_search_tree_Ja.py
ja_init == [root |-> None, nodes |-> <<>>]

ja_TreeNode(data) == [data |-> data, left |-> None, right |-> None]

\* a faulty _insert_recursive: an equal value is sent to the right subtree
RECURSIVE ja_insert_recursive_dup(_, _, _)
ja_insert_recursive_dup(t, node, data) ==
  LET n == t.nodes[node] IN
  IF ~CanOrder(data, n.data) THEN Raise(t, "TypeError")
  ELSE IF data < n.data THEN
    IF n.left = None
    THEN LET id == NewId(t) IN
         Return([t EXCEPT !.nodes = [@ EXCEPT ![node].left = id] @@ (id :> ja_TreeNode(data))],
                None)
    ELSE ja_insert_recursive_dup(t, n.left, data)
  ELSE
    IF n.right = None
    THEN LET id == NewId(t) IN
         Return([t EXCEPT !.nodes = [@ EXCEPT ![node].right = id] @@ (id :> ja_TreeNode(data))],
                None)
    ELSE ja_insert_recursive_dup(t, n.right, data)

RECURSIVE ja_insert_recursive(_, _, _)
ja_insert_recursive(t, node, data) ==
  LET n == t.nodes[node] IN
  IF ~CanOrder(data, n.data) THEN Raise(t, "TypeError")
  ELSE IF data < n.data THEN
    IF n.left = None
    THEN LET id == NewId(t) IN
         Return([t EXCEPT !.nodes = [@ EXCEPT ![node].left = id] @@ (id :> ja_TreeNode(data))],
                None)
    ELSE ja_insert_recursive(t, n.left, data)
  ELSE IF data > n.data THEN
    IF n.right = None
    THEN LET id == NewId(t) IN
         Return([t EXCEPT !.nodes = [@ EXCEPT ![node].right = id] @@ (id :> ja_TreeNode(data))],
                None)
    ELSE ja_insert_recursive(t, n.right, data)
  ELSE Return(t, None)

\* a faulty insert: after the descent an empty left link of the root is set to
\* the root's right child
ja_insert_shares(t, data) ==
  IF data = None THEN Raise(t, "TypeError")
  ELSE IF t.root = None
  THEN LET id == NewId(t) IN
       Return([t EXCEPT !.root = id, !.nodes = @ @@ (id :> ja_TreeNode(data))], None)
  ELSE LET r == ja_insert_recursive(t, t.root, data) IN
    IF r.exc # NoExc THEN r
    ELSE Return([r.tree EXCEPT !.nodes[t.root].left =
                                 IF @ = None THEN r.tree.nodes[t.root].right ELSE @], None)

ja_insert(t, data) ==
  IF data = None THEN Raise(t, "TypeError")
  ELSE IF t.root = None
  THEN LET id == NewId(t) IN
       Return([t EXCEPT !.root = id, !.nodes = @ @@ (id :> ja_TreeNode(data))], None)
  ELSE ja_insert_recursive(t, t.root, data)

RECURSIVE ja_search_recursive(_, _, _)
ja_search_recursive(t, node, data) ==
  IF node = None THEN Return(t, FALSE)
  ELSE LET n == t.nodes[node] IN
    IF data = n.data THEN Return(t, TRUE)
    ELSE IF ~CanOrder(data, n.data) THEN Raise(t, "TypeError")
    ELSE IF data < n.data THEN ja_search_recursive(t, n.left, data)
    ELSE ja_search_recursive(t, n.right, data)

ja_search(t, data) ==
  IF data = None THEN Raise(t, "TypeError")
  ELSE ja_search_recursive(t, t.root, data)

\* a faulty _find_min_node: the loop is missing, the node given is returned
ja_find_min_node_no_loop(t, node) == node

RECURSIVE ja_find_min_node(_, _)
ja_find_min_node(t, node) ==
  IF t.nodes[node].left # None THEN ja_find_min_node(t, t.nodes[node].left) ELSE node

RECURSIVE ja_find_max_node(_, _)
ja_find_max_node(t, node) ==
  IF t.nodes[node].right # None THEN ja_find_max_node(t, t.nodes[node].right) ELSE node

\* a faulty _delete_recursive: a node with two children does not take the
\* data of its successor before the successor is removed
RECURSIVE ja_delete_recursive_no_copy(_, _, _)
ja_delete_recursive_no_copy(t, node, data) ==
  IF node = None THEN DelRet(t, None, FALSE)
  ELSE LET n == t.nodes[node] IN
    IF ~CanOrder(data, n.data) THEN DelRaise(t, "TypeError")
    ELSE IF data < n.data THEN
      LET r == ja_delete_recursive_no_copy(t, n.left, data) IN
      IF r.exc # NoExc THEN r
      ELSE DelRet([r.tree EXCEPT !.nodes[node].left = r.node], node, r.deleted)
    ELSE IF data > n.data THEN
      LET r == ja_delete_recursive_no_copy(t, n.right, data) IN
      IF r.exc # NoExc THEN r
      ELSE DelRet([r.tree EXCEPT !.nodes[node].right = r.node], node, r.deleted)
    ELSE IF n.left = None THEN DelRet(t, n.right, TRUE)
    ELSE IF n.right = None THEN DelRet(t, n.left, TRUE)
    ELSE LET successor == ja_find_min_node(t, n.right)
             r == ja_delete_recursive_no_copy(t, n.right, t.nodes[successor].data)
         IN IF r.exc # NoExc THEN r
            ELSE DelRet([r.tree EXCEPT !.nodes[node].right = r.node], node, TRUE)

RECURSIVE ja_delete_recursive(_, _, _)
ja_delete_recursive(t, node, data) ==
  IF node = None THEN DelRet(t, None, FALSE)
  ELSE LET n == t.nodes[node] IN
    IF ~CanOrder(data, n.data) THEN DelRaise(t, "TypeError")
    ELSE IF data < n.data THEN
      LET r == ja_delete_recursive(t, n.left, data) IN
      IF r.exc # NoExc THEN r
      ELSE DelRet([r.tree EXCEPT !.nodes[node].left = r.node], node, r.deleted)
    ELSE IF data > n.data THEN
      LET r == ja_delete_recursive(t, n.right, data) IN
      IF r.exc # NoExc THEN r
      ELSE DelRet([r.tree EXCEPT !.nodes[node].right = r.node], node, r.deleted)
    ELSE IF n.left = None THEN DelRet(t, n.right, TRUE)
    ELSE IF n.right = None THEN DelRet(t, n.left, TRUE)
    ELSE LET successor == ja_find_min_node(t, n.right)
             t1 == [t EXCEPT !.nodes[node].data = t.nodes[successor].data]
             r == ja_delete_recursive(t1, n.right, t1.nodes[successor].data)
         IN IF r.exc # NoExc THEN r
            ELSE DelRet([r.tree EXCEPT !.nodes[node].right = r.node], node, TRUE)

\* a faulty delete: the value is not looked up before the removal
ja_delete_unchecked(t, data) ==
  IF data = None THEN Raise(t, "TypeError")
  ELSE IF t.root = None THEN Raise(t, "ValueError")
  ELSE LET r == ja_delete_recursive(t, t.root, data) IN
    IF r.exc # NoExc THEN Raise(Collect(r.tree), r.exc)
    ELSE Return(Collect([r.tree EXCEPT !.root = r.node]), None)

ja_delete(t, data) ==
  IF data = None THEN Raise(t, "TypeError")
  ELSE IF t.root = None THEN Raise(t, "ValueError")
  ELSE LET found == ja_search(t, data) IN
    IF found.exc # NoExc THEN Raise(t, found.exc)
    ELSE IF ~found.ret THEN Raise(t, "ValueError")
    ELSE LET r == ja_delete_recursive(t, t.root, data) IN
      IF r.exc # NoExc THEN Raise(Collect(r.tree), r.exc)
      ELSE Return(Collect([r.tree EXCEPT !.root = r.node]), None)

ja_find_min(t) ==
  IF t.root = None THEN Raise(t, "ValueError")
  ELSE Return(t, t.nodes[ja_find_min_node(t, t.root)].data)

ja_find_max(t) ==
  IF t.root = None THEN Raise(t, "ValueError")
  ELSE Return(t, t.nodes[ja_find_max_node(t, t.root)].data)

RECURSIVE ja_in_order_recursive(_, _, _)
ja_in_order_recursive(t, node, result) ==
  IF node # None
  THEN LET r1 == ja_in_order_recursive(t, t.nodes[node].left, result)
           r2 == Append(r1, t.nodes[node].data)
       IN ja_in_order_recursive(t, t.nodes[node].right, r2)
  ELSE result

\* in_order_traversal called by a program that holds the list objects held: result
\* is a new list object, filled by the recursion and returned
ja_in_order_traversal_list(t, held) ==
  LET result == NewList(held)
      lists == held @@ (result :> <<>>)
  IN ReturnList(t, [lists EXCEPT ![result] = ja_in_order_recursive(t, t.root, @)], result)

\* the items of the list in_order_traversal returns
ja_in_order_traversal(t) == LET r == ja_in_order_traversal_list(t, <<>>) IN Return(r.tree, r.lists[r.ret])

RECURSIVE ja_size_recursive(_, _)
ja_size_recursive(t, node) ==
  IF node = None THEN 0
  ELSE 1 + ja_size_recursive(t, t.nodes[node].left) + ja_size_recursive(t, t.nodes[node].right)

ja_size(t) == Return(t, ja_size_recursive(t, t.root))

ja_is_empty(t) == Return(t, t.root = None)

\* a faulty _height_recursive: it counts the links of the path, not the nodes
RECURSIVE ja_height_recursive_links(_, _)
ja_height_recursive_links(t, node) ==
  IF node = None THEN -1
  ELSE LET left_height == ja_height_recursive_links(t, t.nodes[node].left)
           right_height == ja_height_recursive_links(t, t.nodes[node].right)
       IN 1 + (IF left_height >= right_height THEN left_height ELSE right_height)

RECURSIVE ja_height_recursive(_, _)
ja_height_recursive(t, node) ==
  IF node = None THEN 0
  ELSE LET left_height == ja_height_recursive(t, t.nodes[node].left)
           right_height == ja_height_recursive(t, t.nodes[node].right)
       IN 1 + (IF left_height >= right_height THEN left_height ELSE right_height)

ja_height(t) == Return(t, ja_height_recursive(t, t.root))

\* len(tree)
ja_len(t) == ja_size(t)

\* a faulty __contains__: the TypeError of search is not caught
ja_contains_uncaught(t, data) == ja_search(t, data)

\* data in tree
ja_contains(t, data) ==
  LET r == ja_search(t, data) IN
  IF r.exc = "TypeError" THEN Return(r.tree, FALSE) ELSE r

\* ----------------------------------------------- binary_search_tree_mix.py
mix_init == [root |-> None, nodes |-> <<>>]

BSTNode(value) == [value |-> value, left |-> None, right |-> None]

\* a faulty _insert_recursive: a smaller value is sent to the right, a greater
\* one to the left
RECURSIVE mix_insert_recursive_flipped(_, _, _)
mix_insert_recursive_flipped(t, node, value) ==
  LET n == t.nodes[node] IN
  IF ~CanOrder(value, n.value) THEN Raise(t, "TypeError")
  ELSE IF value > n.value THEN
    IF n.left = None
    THEN LET id == NewId(t) IN
         Return([t EXCEPT !.nodes = [@ EXCEPT ![node].left = id] @@ (id :> BSTNode(value))],
                None)
    ELSE mix_insert_recursive_flipped(t, n.left, value)
  ELSE IF value < n.value THEN
    IF n.right = None
    THEN LET id == NewId(t) IN
         Return([t EXCEPT !.nodes = [@ EXCEPT ![node].right = id] @@ (id :> BSTNode(value))],
                None)
    ELSE mix_insert_recursive_flipped(t, n.right, value)
  ELSE Return(t, None)

RECURSIVE mix_insert_recursive(_, _, _)
mix_insert_recursive(t, node, value) ==
  LET n == t.nodes[node] IN
  IF ~CanOrder(value, n.value) THEN Raise(t, "TypeError")
  ELSE IF value < n.value THEN
    IF n.left = None
    THEN LET id == NewId(t) IN
         Return([t EXCEPT !.nodes = [@ EXCEPT ![node].left = id] @@ (id :> BSTNode(value))],
                None)
    ELSE mix_insert_recursive(t, n.left, value)
  ELSE IF value > n.value THEN
    IF n.right = None
    THEN LET id == NewId(t) IN
         Return([t EXCEPT !.nodes = [@ EXCEPT ![node].right = id] @@ (id :> BSTNode(value))],
                None)
    ELSE mix_insert_recursive(t, n.right, value)
  ELSE Return(t, None)

mix_insert(t, value) ==
  IF t.root = None
  THEN LET id == NewId(t) IN
       Return([t EXCEPT !.root = id, !.nodes = @ @@ (id :> BSTNode(value))], None)
  ELSE mix_insert_recursive(t, t.root, value)

\* a faulty _search_recursive: the descent goes right for a smaller value
RECURSIVE mix_search_recursive_flipped(_, _, _)
mix_search_recursive_flipped(t, node, value) ==
  IF node = None THEN Return(t, FALSE)
  ELSE LET n == t.nodes[node] IN
    IF value = n.value THEN Return(t, TRUE)
    ELSE IF ~CanOrder(value, n.value) THEN Raise(t, "TypeError")
    ELSE IF value < n.value THEN mix_search_recursive_flipped(t, n.right, value)
    ELSE mix_search_recursive_flipped(t, n.left, value)

RECURSIVE mix_search_recursive(_, _, _)
mix_search_recursive(t, node, value) ==
  IF node = None THEN Return(t, FALSE)
  ELSE LET n == t.nodes[node] IN
    IF value = n.value THEN Return(t, TRUE)
    ELSE IF ~CanOrder(value, n.value) THEN Raise(t, "TypeError")
    ELSE IF value < n.value THEN mix_search_recursive(t, n.left, value)
    ELSE mix_search_recursive(t, n.right, value)

mix_search(t, value) ==
  IF t.root = None THEN Return(t, FALSE)
  ELSE mix_search_recursive(t, t.root, value)

\* a faulty _find_min_node: the loop follows the right links
RECURSIVE mix_find_min_node_right(_, _)
mix_find_min_node_right(t, node) ==
  IF t.nodes[node].right # None THEN mix_find_min_node_right(t, t.nodes[node].right) ELSE node

RECURSIVE mix_find_min_node(_, _)
mix_find_min_node(t, node) ==
  IF t.nodes[node].left # None THEN mix_find_min_node(t, t.nodes[node].left) ELSE node

RECURSIVE mix_find_max_node(_, _)
mix_find_max_node(t, node) ==
  IF t.nodes[node].right # None THEN mix_find_max_node(t, t.nodes[node].right) ELSE node

\* a faulty _delete_recursive: a matched node without a left child is replaced
\* by nothing, its right subtree lost
RECURSIVE mix_delete_recursive_drops(_, _, _)
mix_delete_recursive_drops(t, node, value) ==
  IF node = None THEN DelRet(t, None, FALSE)
  ELSE LET n == t.nodes[node] IN
    IF ~CanOrder(value, n.value) THEN DelRaise(t, "TypeError")
    ELSE IF value < n.value THEN
      LET r == mix_delete_recursive_drops(t, n.left, value) IN
      IF r.exc # NoExc THEN r
      ELSE DelRet([r.tree EXCEPT !.nodes[node].left = r.node], node, r.deleted)
    ELSE IF value > n.value THEN
      LET r == mix_delete_recursive_drops(t, n.right, value) IN
      IF r.exc # NoExc THEN r
      ELSE DelRet([r.tree EXCEPT !.nodes[node].right = r.node], node, r.deleted)
    ELSE IF n.left = None THEN DelRet(t, None, TRUE)
    ELSE IF n.right = None THEN DelRet(t, n.left, TRUE)
    ELSE LET successor == mix_find_min_node(t, n.right)
             t1 == [t EXCEPT !.nodes[node].value = t.nodes[successor].value]
             r == mix_delete_recursive_drops(t1, n.right, t1.nodes[successor].value)
         IN IF r.exc # NoExc THEN r
            ELSE DelRet([r.tree EXCEPT !.nodes[node].right = r.node], node, TRUE)

RECURSIVE mix_delete_recursive(_, _, _)
mix_delete_recursive(t, node, value) ==
  IF node = None THEN DelRet(t, None, FALSE)
  ELSE LET n == t.nodes[node] IN
    IF ~CanOrder(value, n.value) THEN DelRaise(t, "TypeError")
    ELSE IF value < n.value THEN
      LET r == mix_delete_recursive(t, n.left, value) IN
      IF r.exc # NoExc THEN r
      ELSE DelRet([r.tree EXCEPT !.nodes[node].left = r.node], node, r.deleted)
    ELSE IF value > n.value THEN
      LET r == mix_delete_recursive(t, n.right, value) IN
      IF r.exc # NoExc THEN r
      ELSE DelRet([r.tree EXCEPT !.nodes[node].right = r.node], node, r.deleted)
    ELSE IF n.left = None THEN DelRet(t, n.right, TRUE)
    ELSE IF n.right = None THEN DelRet(t, n.left, TRUE)
    ELSE LET successor == mix_find_min_node(t, n.right)
             t1 == [t EXCEPT !.nodes[node].value = t.nodes[successor].value]
             r == mix_delete_recursive(t1, n.right, t1.nodes[successor].value)
         IN IF r.exc # NoExc THEN r
            ELSE DelRet([r.tree EXCEPT !.nodes[node].right = r.node], node, TRUE)

\* a faulty delete: the root the recursion returns is not assigned
mix_delete_keeps_root(t, value) ==
  IF t.root = None THEN Return(t, FALSE)
  ELSE LET r == mix_delete_recursive(t, t.root, value) IN
    IF r.exc # NoExc THEN Raise(Collect(r.tree), "TypeError")
    ELSE Return(Collect(r.tree), r.deleted)

mix_delete(t, value) ==
  IF t.root = None THEN Return(t, FALSE)
  ELSE LET r == mix_delete_recursive(t, t.root, value) IN
    IF r.exc # NoExc THEN Raise(Collect(r.tree), "TypeError")
    ELSE Return(Collect([r.tree EXCEPT !.root = r.node]), r.deleted)

\* a faulty find_min: an empty tree answers None
mix_find_min_silent(t) ==
  IF t.root = None THEN Return(t, None)
  ELSE Return(t, t.nodes[mix_find_min_node(t, t.root)].value)

mix_find_min(t) ==
  IF t.root = None THEN Raise(t, "ValueError")
  ELSE Return(t, t.nodes[mix_find_min_node(t, t.root)].value)

mix_find_max(t) ==
  IF t.root = None THEN Raise(t, "ValueError")
  ELSE Return(t, t.nodes[mix_find_max_node(t, t.root)].value)

RECURSIVE mix_inorder_recursive(_, _, _)
mix_inorder_recursive(t, node, result) ==
  IF node # None
  THEN LET r1 == mix_inorder_recursive(t, t.nodes[node].left, result)
           r2 == Append(r1, t.nodes[node].value)
       IN mix_inorder_recursive(t, t.nodes[node].right, r2)
  ELSE result

\* inorder_traversal called by a program that holds the list objects held: result
\* is a new list object, filled by the recursion and returned
mix_inorder_traversal_list(t, held) ==
  LET result == NewList(held)
      lists == held @@ (result :> <<>>)
  IN ReturnList(t, [lists EXCEPT ![result] = IF t.root # None THEN mix_inorder_recursive(t, t.root, @) ELSE @], result)

\* the items of the list inorder_traversal returns
mix_inorder_traversal(t) == LET r == mix_inorder_traversal_list(t, <<>>) IN Return(r.tree, r.lists[r.ret])

RECURSIVE mix_size_recursive(_, _)
mix_size_recursive(t, node) ==
  IF node = None THEN 0
  ELSE 1 + mix_size_recursive(t, t.nodes[node].left) + mix_size_recursive(t, t.nodes[node].right)

mix_size(t) == Return(t, mix_size_recursive(t, t.root))

mix_is_empty(t) == Return(t, t.root = None)

\* a call of a method the class does not define
mix_no_attribute(t) == Raise(t, "AttributeError")

\* --------------------------------------------------------------- CheckCode.py
\* A line of a file, after strip(), is the sequence of its tokens: DQ3 is three
\* double quotes, SQ3 three single quotes, # a hash sign, w any other text.
\* A line of white space only is the empty sequence.
\* content.split('\n') of the files of up to MaxLines lines, each of them a
\* blank line, a statement, a comment, a delimiter alone, a docstring opened
\* and closed on the line, or a delimiter of the other kind alone
Files ==
  LET kinds == {<<>>, <<"w">>, <<"#", "w">>, <<"DQ3">>, <<"DQ3", "w", "DQ3">>, <<"SQ3">>}
  IN UNION {[1..n -> kinds] : n \in 1..MaxLines}

\* the local variables of analyze_code_structure before its loop: the counts
\* of the dictionary analysis, in_docstring and docstring_quotes; k is the
\* number of lines the loop has gone through, counted the count each of them
\* was added to
Opened(lines) ==
  [lines |-> lines, k |-> 0, total_lines |-> Len(lines), code_lines |-> 0,
   comment_lines |-> 0, docstring_lines |-> 0, blank_lines |-> 0,
   in_docstring |-> FALSE, docstring_quotes |-> "None", counted |-> <<>>]

\* one iteration of the loop of analyze_code_structure, as far as the line
\* counts go: In(token) is token in stripped, Counted(d, kind) adds one to the
\* count named kind for the line the loop is at
analyze_line(c) ==
  LET stripped == c.lines[c.k + 1]
      In(token) == \E k \in 1..Len(stripped) : stripped[k] = token
      Counted(d, kind) ==
        [d EXCEPT !.k = @ + 1, !.counted = Append(@, kind),
                  !.blank_lines = IF kind = "blank_lines" THEN @ + 1 ELSE @,
                  !.docstring_lines = IF kind = "docstring_lines" THEN @ + 1 ELSE @,
                  !.comment_lines = IF kind = "comment_lines" THEN @ + 1 ELSE @,
                  !.code_lines = IF kind = "code_lines" THEN @ + 1 ELSE @]
  IN
  IF stripped = <<>> THEN Counted(c, "blank_lines")
  ELSE IF In("DQ3") \/ In("SQ3") THEN
    LET quotes == IF In("DQ3") THEN "DQ3" ELSE "SQ3" IN
    IF ~c.in_docstring
    THEN Counted([c EXCEPT !.in_docstring = TRUE, !.docstring_quotes = quotes],
                 "docstring_lines")
    ELSE IF quotes = c.docstring_quotes
    THEN Counted([c EXCEPT !.in_docstring = FALSE], "docstring_lines")
    ELSE Counted(c, "none")
  ELSE IF c.in_docstring THEN Counted(c, "docstring_lines")
  ELSE IF stripped[1] = "#" THEN Counted(c, "comment_lines")
  ELSE Counted(c, "code_lines")

\* ------------------------------------------------------------------- state
\* en, ja, mix: the three tree objects, given the same calls.
\* S: the mathematical set the calls with int arguments describe (S + {v} on
\*    insert(v), S - {v} on delete(v)).
\* last: the most recent call, what each variant answered, and whether each
\*    tree stored the argument when the call was made.
\* i: how many of its values the loop of the example script has inserted.
\* lists: per variant, the list objects the caller got from a traversal and
\*    still refers to, each with its items.
\* run: the call that is in progress, when calls are followed step by step.
\* reader: a call of a second thread that reads the tree run is working on.
\* checker: the file analyze_code_structure was given, and its local variables.
VARIABLES en, ja, mix, S, last, i, lists, run, reader, checker

vars == <<en, ja, mix, S, last, i, lists, run, reader, checker>>

\* what a call answered, as recorded in last: the exception raised, and the
\* returned object as <<its type, its content>>
PyVal(v) == <<PyType(v), v>>
PyNone == PyVal(None)
PyBool(b) == <<"bool", IF b THEN 1 ELSE 0>>
PyList(q) == <<"list">> \o q
PyInt(k) == <<"int", k>>

Outcome(r, obj) == [exc |-> r.exc, ret |-> IF r.exc = NoExc THEN obj ELSE PyNone]

NoneOf(r) == [tree |-> r.tree, out |-> Outcome(r, PyNone)]
BoolOf(r) == [tree |-> r.tree, out |-> Outcome(r, PyBool(r.ret))]
ValOf(r) == [tree |-> r.tree, out |-> Outcome(r, PyVal(r.ret))]
ListOf(r) == [tree |-> r.tree, out |-> Outcome(r, PyList(r.ret))]
IntOf(r) == [tree |-> r.tree, out |-> Outcome(r, PyInt(r.ret))]

\* no call is in progress
NoRet == [node |-> None, flag |-> FALSE, value |-> None]

NoAnswer == [exc |-> NoExc, ret |-> PyNone]

Idle == [who |-> "none", op |-> "none", arg |-> None, stack |-> <<>>, ret |-> NoRet,
         result |-> <<>>, answer |-> NoAnswer,
         out |-> [en |-> NoAnswer, ja |-> NoAnswer, mix |-> NoAnswer],
         before |-> [en |-> en_init, ja |-> ja_init, mix |-> mix_init], visits |-> <<>>]

\* no second thread is reading: call is its call in progress, overlapped tells
\* whether a delete was in progress at any time since the call began
NoReader == [call |-> Idle, overlapped |-> FALSE]

Stored(t, v) == \E n \in DOMAIN t.nodes :
                  v = (IF "data" \in DOMAIN t.nodes[n] THEN t.nodes[n].data ELSE t.nodes[n].value)

Call(op, arg, e, j, m) ==
  /\ en' = e.tree
  /\ ja' = j.tree
  /\ mix' = m.tree
  /\ last' = [op |-> op, arg |-> arg, en |-> e.out, ja |-> j.out, mix |-> m.out,
              had |-> [en |-> Stored(en, arg), ja |-> Stored(ja, arg), mix |-> Stored(mix, arg)]]
  /\ lists' = lists
  /\ run' = run
  /\ reader' = reader
  /\ checker' = checker

Init ==
  /\ en = en_init
  /\ ja = ja_init
  /\ mix = mix_init
  /\ S = {}
  /\ last = [op |-> "init", arg |-> None, en |-> NoneOf(Return(en_init, None)).out,
             ja |-> NoneOf(Return(ja_init, None)).out,
             mix |-> NoneOf(Return(mix_init, None)).out,
             had |-> [en |-> FALSE, ja |-> FALSE, mix |-> FALSE]]
  /\ i = 0
  /\ lists = [en |-> <<>>, ja |-> <<>>, mix |-> <<>>]
  /\ run = Idle
  /\ reader = NoReader
  /\ checker = Opened(<<>>)

NodeCount(t) == Cardinality(DOMAIN t.nodes)

insert(v) ==
  /\ Call("insert", v, NoneOf(en_insert(en, v)), NoneOf(ja_insert(ja, v)),
          NoneOf(mix_insert(mix, v)))
  /\ S' = IF PyType(v) = "int" THEN S \cup {v} ELSE S

delete(v) ==
  /\ Call("delete", v, BoolOf(en_delete(en, v)), NoneOf(ja_delete(ja, v)),
          BoolOf(mix_delete(mix, v)))
  /\ S' = IF PyType(v) = "int" THEN S \ {v} ELSE S

search(v) ==
  /\ Call("search", v, BoolOf(en_search(en, v)), BoolOf(ja_search(ja, v)),
          BoolOf(mix_search(mix, v)))
  /\ S' = S

find_min ==
  /\ Call("find_min", None, ValOf(en_find_minimum(en)), ValOf(ja_find_min(ja)),
          ValOf(mix_find_min(mix)))
  /\ S' = S

find_max ==
  /\ Call("find_max", None, ValOf(en_find_maximum(en)), ValOf(ja_find_max(ja)),
          ValOf(mix_find_max(mix)))
  /\ S' = S

inorder_traversal ==
  /\ Call("inorder_traversal", None, ListOf(en_inorder_traversal(en)),
          ListOf(ja_in_order_traversal(ja)), ListOf(mix_inorder_traversal(mix)))
  /\ S' = S

size ==
  /\ Call("size", None, IntOf(en_size(en)), IntOf(ja_size(ja)), IntOf(mix_size(mix)))
  /\ S' = S

\* height is a method of the Ja variant only
height ==
  /\ Call("height", None, IntOf(en_no_attribute(en)), IntOf(ja_height(ja)),
          IntOf(mix_no_attribute(mix)))
  /\ S' = S

is_empty ==
  /\ Call("is_empty", None, BoolOf(en_is_empty(en)), BoolOf(ja_is_empty(ja)),
          BoolOf(mix_is_empty(mix)))
  /\ S' = S

\* len(tree): __len__ is a method of the Ja variant only; on a class that
\* defines no __len__ the operator raises TypeError
len ==
  /\ Call("len", None, IntOf(Raise(en, "TypeError")), IntOf(ja_len(ja)),
          IntOf(Raise(mix, "TypeError")))
  /\ S' = S

\* v in tree: __contains__ is a method of the Ja variant only; on a class that
\* defines neither __contains__ nor __iter__ the operator raises TypeError
contains(v) ==
  /\ Call("contains", v, BoolOf(Raise(en, "TypeError")), BoolOf(ja_contains(ja, v)),
          BoolOf(Raise(mix, "TypeError")))
  /\ S' = S

\* the list object a traversal returned, as the only one the caller holds
Only(r) == [k \in {r.ret} |-> r.lists[k]]

ItemsOf(r) == [tree |-> r.tree, out |-> Outcome(r, PyList(r.lists[r.ret]))]

\* a traversal whose caller keeps the returned list, in place of the list of
\* the traversal before
inorder_traversal_kept ==
  LET e == en_inorder_traversal_list(en, lists.en)
      j == ja_in_order_traversal_list(ja, lists.ja)
      m == mix_inorder_traversal_list(mix, lists.mix)
  IN /\ en' = e.tree
     /\ ja' = j.tree
     /\ mix' = m.tree
     /\ last' = [op |-> "inorder_traversal", arg |-> None, en |-> ItemsOf(e).out,
                 ja |-> ItemsOf(j).out, mix |-> ItemsOf(m).out,
                 had |-> [en |-> Stored(en, None), ja |-> Stored(ja, None),
                          mix |-> Stored(mix, None)]]
     /\ lists' = [en |-> Only(e), ja |-> Only(j), mix |-> Only(m)]
     /\ S' = S
     /\ run' = run
     /\ reader' = reader
     /\ checker' = checker

\* a test driver: any call, its argument drawn from Args, the trees kept
\* within MaxNodes nodes
Insert(Args) ==
  /\ i = 0
  /\ \E v \in Args : insert(v)
  /\ NodeCount(en') <= MaxNodes /\ NodeCount(ja') <= MaxNodes /\ NodeCount(mix') <= MaxNodes
  /\ UNCHANGED i

Delete(Args) == i = 0 /\ (\E v \in Args : delete(v)) /\ UNCHANGED i

Search(Args) == i = 0 /\ (\E v \in Args : search(v)) /\ UNCHANGED i

FindMin == i = 0 /\ find_min /\ UNCHANGED i

FindMax == i = 0 /\ find_max /\ UNCHANGED i

Traverse == i = 0 /\ inorder_traversal /\ UNCHANGED i

Size == i = 0 /\ size /\ UNCHANGED i

Height == i = 0 /\ height /\ UNCHANGED i

IsEmpty == i = 0 /\ is_empty /\ UNCHANGED i

TraverseKept == i = 0 /\ inorder_traversal_kept /\ UNCHANGED i

Length == i = 0 /\ len /\ UNCHANGED i

Contains(Args) == i = 0 /\ (\E v \in Args : contains(v)) /\ UNCHANGED i

\* the example script of the en and mix modules: on a new tree the loop inserts
\* values; then the script reads, searches and deletes
values == <<50, 30, 70, 20, 40, 60, 80>>

ExampleArgs == {values[k] : k \in 1..Len(values)} \cup {90}

MainInsert ==
  /\ i < Len(values)
  /\ i = 0 => last.op = "init"
  /\ insert(values[i + 1])
  /\ i' = i + 1

MainDelete == i = Len(values) /\ (\E v \in ExampleArgs : delete(v)) /\ UNCHANGED i

MainSearch == i = Len(values) /\ (\E v \in ExampleArgs : search(v)) /\ UNCHANGED i

MainFindMin == i = Len(values) /\ find_min /\ UNCHANGED i

MainFindMax == i = Len(values) /\ find_max /\ UNCHANGED i

MainTraverse == i = Len(values) /\ inorder_traversal /\ UNCHANGED i

MainSize == i = Len(values) /\ size /\ UNCHANGED i

MainHeight == i = Len(values) /\ height /\ UNCHANGED i

MainIsEmpty == i = Len(values) /\ is_empty /\ UNCHANGED i

Main == MainInsert \/ MainDelete \/ MainSearch \/ MainFindMin \/ MainFindMax
          \/ MainTraverse \/ MainSize \/ MainHeight \/ MainIsEmpty

\* any sequence of calls, any argument
Next == Insert(AllValues) \/ Delete(AllValues) \/ Search(AllValues)
          \/ FindMin \/ FindMax \/ Traverse \/ Size \/ Height \/ IsEmpty \/ Main

Spec == Init /\ [][Next]_vars

\* any sequence of calls with mutually comparable, non-None arguments
NextValid == Insert(IntValues) \/ Delete(IntValues) \/ Search(IntValues)
               \/ FindMin \/ FindMax \/ Traverse \/ Size \/ Height \/ IsEmpty \/ Main

SpecValid == Init /\ [][NextValid]_vars

\* the values inserted and deleted while the caller keeps a list
KeptValues == 1..MaxKept

\* any sequence of calls, with values of KeptValues to insert and delete, by
\* a caller that keeps the list of its latest traversal
NextKept == Insert(KeptValues) \/ Delete(KeptValues) \/ Search(AllValues)
              \/ FindMin \/ FindMax \/ TraverseKept \/ Size \/ Height \/ IsEmpty

SpecKept == Init /\ [][NextKept]_vars

\* any sequence of calls, any argument, by a caller that also uses len(tree)
\* and value in tree
NextProtocol == Insert(AllValues) \/ Delete(AllValues) \/ Search(AllValues)
                  \/ Contains(AllValues) \/ Length \/ Size

SpecProtocol == Init /\ [][NextProtocol]_vars

\* ------------------------------------------------------ a call, step by step
\* One step is one entry of a method, one return from it, or one iteration of
\* a while loop. The frames of run.stack are the methods entered and not yet
\* left, the innermost last; a frame holds the method's name, its node
\* argument (for a loop, the node the loop has reached), its value argument,
\* the statement it resumes at when a method it called returns, and a local
\* variable. run.ret is what the last return passed back, run.result the list
\* a traversal fills, run.answer what the outermost method answered, and
\* run.visits counts, per node, the entries of a method with that node and the
\* loop iterations that reached it.
Frame(fn, node, value) == [fn |-> fn, node |-> node, value |-> value, pc |-> "start", tmp |-> 0]

Top(r) == r.stack[Len(r.stack)]

Visit(r, n) ==
  IF n = None THEN r
  ELSE [r EXCEPT !.visits = IF n \in DOMAIN @ THEN [@ EXCEPT ![n] = @ + 1] ELSE @ @@ (n :> 1)]

\* the innermost method calls fn(node, value) and resumes at pc
Enter(r, pc, fn, node, value) ==
  Visit([r EXCEPT !.stack = Append([@ EXCEPT ![Len(@)].pc = pc], Frame(fn, node, value))], node)

\* the innermost method returns ret to its caller
Leave(r, ret) == [r EXCEPT !.stack = SubSeq(@, 1, Len(@) - 1), !.ret = ret]

\* the outermost method returns obj to the caller of the tree
Answer(r, obj) == [r EXCEPT !.stack = <<>>, !.answer = [exc |-> NoExc, ret |-> obj]]

\* an exception leaves every frame: the en and mix methods that catch a
\* TypeError raise a TypeError again, no other method catches
Throw(r, e) == [r EXCEPT !.stack = <<>>, !.answer = [exc |-> e, ret |-> PyNone]]

Stepped(t, r) == [tree |-> t, run |-> r]

NewNode(who, v) == IF who = "en" THEN TreeNode(v) ELSE IF who = "ja" THEN ja_TreeNode(v)
                   ELSE BSTNode(v)

SetKey(who, t, n, v) == IF who = "ja" THEN [t EXCEPT !.nodes[n].data = v]
                        ELSE [t EXCEPT !.nodes[n].value = v]

\* the en variant counts its nodes in _size
Count(who, t, d) == IF who = "en" THEN [t EXCEPT !.size = @ + d] ELSE t

Step_insert(who, t, r) ==
  LET f == Top(r) IN
  IF f.pc = "start" THEN
    IF who = "en" /\ f.value = None THEN Stepped(t, Throw(r, "ValueError"))
    ELSE IF who = "ja" /\ f.value = None THEN Stepped(t, Throw(r, "TypeError"))
    ELSE IF t.root = None
    THEN LET id == NewId(t) IN
         Stepped(Count(who, [t EXCEPT !.root = id, !.nodes = @ @@ (id :> NewNode(who, f.value))], 1),
                 Answer(r, PyNone))
    ELSE Stepped(t, Enter(r, "called", "insert_recursive", t.root, f.value))
  ELSE Stepped(t, Answer(r, PyNone))

Step_insert_recursive(who, t, r) ==
  LET f == Top(r)
      n == t.nodes[f.node]
      id == NewId(t)
  IN
  IF f.pc = "start" THEN
    IF ~CanOrder(f.value, Key(t, f.node)) THEN Stepped(t, Throw(r, "TypeError"))
    ELSE IF f.value < Key(t, f.node) THEN
      IF n.left = None
      THEN Stepped(Count(who, [t EXCEPT !.nodes = [@ EXCEPT ![f.node].left = id]
                                                    @@ (id :> NewNode(who, f.value))], 1),
                   Leave(r, r.ret))
      ELSE Stepped(t, Enter(r, "called", "insert_recursive", n.left, f.value))
    ELSE IF f.value > Key(t, f.node) THEN
      IF n.right = None
      THEN Stepped(Count(who, [t EXCEPT !.nodes = [@ EXCEPT ![f.node].right = id]
                                                    @@ (id :> NewNode(who, f.value))], 1),
                   Leave(r, r.ret))
      ELSE Stepped(t, Enter(r, "called", "insert_recursive", n.right, f.value))
    ELSE Stepped(t, Leave(r, r.ret))
  ELSE Stepped(t, Leave(r, r.ret))

\* search is called by the caller of the tree and, in the Ja variant, by delete
Step_search(who, t, r) ==
  LET f == Top(r) IN
  IF f.pc = "start" THEN
    IF who = "en" /\ f.value = None THEN Stepped(t, Throw(r, "ValueError"))
    ELSE IF who = "ja" /\ f.value = None THEN Stepped(t, Throw(r, "TypeError"))
    ELSE IF who # "ja" /\ t.root = None THEN Stepped(t, Answer(r, PyBool(FALSE)))
    ELSE Stepped(t, Enter(r, "called", "search_recursive", t.root, f.value))
  ELSE IF Len(r.stack) = 1 THEN Stepped(t, Answer(r, PyBool(r.ret.flag)))
  ELSE Stepped(t, Leave(r, r.ret))

Step_search_recursive(who, t, r) ==
  LET f == Top(r) IN
  IF f.pc = "start" THEN
    IF f.node = None THEN Stepped(t, Leave(r, [r.ret EXCEPT !.flag = FALSE]))
    ELSE IF f.value = Key(t, f.node) THEN Stepped(t, Leave(r, [r.ret EXCEPT !.flag = TRUE]))
    ELSE IF ~CanOrder(f.value, Key(t, f.node)) THEN Stepped(t, Throw(r, "TypeError"))
    ELSE IF f.value < Key(t, f.node)
    THEN Stepped(t, Enter(r, "called", "search_recursive", t.nodes[f.node].left, f.value))
    ELSE Stepped(t, Enter(r, "called", "search_recursive", t.nodes[f.node].right, f.value))
  ELSE Stepped(t, Leave(r, r.ret))

Step_delete(who, t, r) ==
  LET f == Top(r) IN
  IF f.pc = "start" THEN
    IF who = "en" /\ f.value = None THEN Stepped(t, Throw(r, "ValueError"))
    ELSE IF who = "ja" /\ f.value = None THEN Stepped(t, Throw(r, "TypeError"))
    ELSE IF t.root = None
    THEN IF who = "ja" THEN Stepped(t, Throw(r, "ValueError"))
         ELSE Stepped(t, Answer(r, PyBool(FALSE)))
    ELSE IF who = "ja" THEN Stepped(t, Enter(r, "searched", "search", None, f.value))
    ELSE Stepped(t, Enter(r, "called", "delete_recursive", t.root, f.value))
  ELSE IF f.pc = "searched" THEN
    IF ~r.ret.flag THEN Stepped(t, Throw(r, "ValueError"))
    ELSE Stepped(t, Enter(r, "called", "delete_recursive", t.root, f.value))
  ELSE IF who = "ja" THEN Stepped([t EXCEPT !.root = r.ret.node], Answer(r, PyNone))
  ELSE Stepped(Count(who, [t EXCEPT !.root = r.ret.node], IF r.ret.flag THEN -1 ELSE 0),
               Answer(r, PyBool(r.ret.flag)))

\* a faulty _delete_recursive: the successor value is removed from the subtree
\* of the matched node itself, not from its right subtree
Step_delete_recursive_same_node(who, t, r) ==
  LET f == Top(r)
      n == t.nodes[f.node]
      Returning(node, deleted) == [r.ret EXCEPT !.node = node, !.flag = deleted]
  IN
  IF f.pc = "start" THEN
    IF f.node = None THEN Stepped(t, Leave(r, Returning(None, FALSE)))
    ELSE IF ~CanOrder(f.value, Key(t, f.node)) THEN Stepped(t, Throw(r, "TypeError"))
    ELSE IF f.value < Key(t, f.node)
    THEN Stepped(t, Enter(r, "left", "delete_recursive", n.left, f.value))
    ELSE IF f.value > Key(t, f.node)
    THEN Stepped(t, Enter(r, "right", "delete_recursive", n.right, f.value))
    ELSE IF who = "en" /\ n.left = None /\ n.right = None
    THEN Stepped(t, Leave(r, Returning(None, TRUE)))
    ELSE IF n.left = None THEN Stepped(t, Leave(r, Returning(n.right, TRUE)))
    ELSE IF n.right = None THEN Stepped(t, Leave(r, Returning(n.left, TRUE)))
    ELSE Stepped(t, Enter(r, "successor", "find_min_node", n.right, f.value))
  ELSE IF f.pc = "left"
  THEN Stepped([t EXCEPT !.nodes[f.node].left = r.ret.node],
               Leave(r, Returning(f.node, r.ret.flag)))
  ELSE IF f.pc = "right"
  THEN Stepped([t EXCEPT !.nodes[f.node].right = r.ret.node],
               Leave(r, Returning(f.node, r.ret.flag)))
  ELSE IF f.pc = "successor"
  THEN Stepped(SetKey(who, t, f.node, r.ret.value),
               Enter(r, "removed", "delete_recursive", f.node, r.ret.value))
  ELSE Stepped([t EXCEPT !.nodes[f.node].right = r.ret.node],
               Leave(r, Returning(f.node, TRUE)))

Step_delete_recursive(who, t, r) ==
  LET f == Top(r)
      n == t.nodes[f.node]
      Returning(node, deleted) == [r.ret EXCEPT !.node = node, !.flag = deleted]
  IN
  IF f.pc = "start" THEN
    IF f.node = None THEN Stepped(t, Leave(r, Returning(None, FALSE)))
    ELSE IF ~CanOrder(f.value, Key(t, f.node)) THEN Stepped(t, Throw(r, "TypeError"))
    ELSE IF f.value < Key(t, f.node)
    THEN Stepped(t, Enter(r, "left", "delete_recursive", n.left, f.value))
    ELSE IF f.value > Key(t, f.node)
    THEN Stepped(t, Enter(r, "right", "delete_recursive", n.right, f.value))
    ELSE IF who = "en" /\ n.left = None /\ n.right = None
    THEN Stepped(t, Leave(r, Returning(None, TRUE)))
    ELSE IF n.left = None THEN Stepped(t, Leave(r, Returning(n.right, TRUE)))
    ELSE IF n.right = None THEN Stepped(t, Leave(r, Returning(n.left, TRUE)))
    ELSE Stepped(t, Enter(r, "successor", "find_min_node", n.right, f.value))
  ELSE IF f.pc = "left"
  THEN Stepped([t EXCEPT !.nodes[f.node].left = r.ret.node],
               Leave(r, Returning(f.node, r.ret.flag)))
  ELSE IF f.pc = "right"
  THEN Stepped([t EXCEPT !.nodes[f.node].right = r.ret.node],
               Leave(r, Returning(f.node, r.ret.flag)))
  ELSE IF f.pc = "successor"
  THEN Stepped(SetKey(who, t, f.node, r.ret.value),
               Enter(r, "removed", "delete_recursive", n.right, r.ret.value))
  ELSE Stepped([t EXCEPT !.nodes[f.node].right = r.ret.node],
               Leave(r, Returning(f.node, TRUE)))

\* a faulty loop of _find_min_value and _find_min_node: node is not moved to
\* its left child
Step_find_min_node_stays(who, t, r) ==
  LET f == Top(r) IN
  IF t.nodes[f.node].left # None
  THEN Stepped(t, Visit(r, f.node))
  ELSE Stepped(t, Leave(r, [r.ret EXCEPT !.node = f.node, !.value = Key(t, f.node)]))

\* the while loop of _find_min_value (en) and _find_min_node (Ja, mix): it
\* returns the node reached (Ja, mix) or its value (en)
Step_find_min_node(who, t, r) ==
  LET f == Top(r) IN
  IF t.nodes[f.node].left # None
  THEN Stepped(t, Visit([r EXCEPT !.stack[Len(r.stack)].node = t.nodes[f.node].left],
                        t.nodes[f.node].left))
  ELSE Stepped(t, Leave(r, [r.ret EXCEPT !.node = f.node, !.value = Key(t, f.node)]))

\* the while loop of find_maximum (en) and _find_max_node (Ja, mix)
Step_find_max_node(who, t, r) ==
  LET f == Top(r) IN
  IF t.nodes[f.node].right # None
  THEN Stepped(t, Visit([r EXCEPT !.stack[Len(r.stack)].node = t.nodes[f.node].right],
                        t.nodes[f.node].right))
  ELSE Stepped(t, Leave(r, [r.ret EXCEPT !.node = f.node, !.value = Key(t, f.node)]))

Step_find_min(who, t, r) ==
  LET f == Top(r) IN
  IF f.pc = "start" THEN
    IF t.root = None THEN Stepped(t, Throw(r, "ValueError"))
    ELSE Stepped(t, Enter(r, "called", "find_min_node", t.root, None))
  ELSE Stepped(t, Answer(r, PyVal(r.ret.value)))

Step_find_max(who, t, r) ==
  LET f == Top(r) IN
  IF f.pc = "start" THEN
    IF t.root = None THEN Stepped(t, Throw(r, "ValueError"))
    ELSE Stepped(t, Enter(r, "called", "find_max_node", t.root, None))
  ELSE Stepped(t, Answer(r, PyVal(r.ret.value)))

Step_inorder_traversal(who, t, r) ==
  LET f == Top(r) IN
  IF f.pc = "start" THEN
    IF who = "mix" /\ t.root = None THEN Stepped(t, Answer(r, PyList(<<>>)))
    ELSE Stepped(t, Enter([r EXCEPT !.result = <<>>], "called", "inorder_recursive", t.root, None))
  ELSE Stepped(t, Answer(r, PyList(r.result)))

\* a faulty _inorder_recursive: the node is appended before its left subtree
\* is visited
Step_inorder_recursive_preorder(who, t, r) ==
  LET f == Top(r) IN
  IF f.pc = "start" THEN
    IF f.node = None THEN Stepped(t, Leave(r, r.ret))
    ELSE Stepped(t, Enter([r EXCEPT !.result = Append(@, Key(t, f.node))], "left",
                          "inorder_recursive", t.nodes[f.node].left, None))
  ELSE IF f.pc = "left"
  THEN Stepped(t, Enter(r, "right", "inorder_recursive", t.nodes[f.node].right, None))
  ELSE Stepped(t, Leave(r, r.ret))

Step_inorder_recursive(who, t, r) ==
  LET f == Top(r) IN
  IF f.pc = "start" THEN
    IF f.node = None THEN Stepped(t, Leave(r, r.ret))
    ELSE Stepped(t, Enter(r, "left", "inorder_recursive", t.nodes[f.node].left, None))
  ELSE IF f.pc = "left"
  THEN Stepped(t, Enter([r EXCEPT !.result = Append(@, Key(t, f.node))], "right",
                        "inorder_recursive", t.nodes[f.node].right, None))
  ELSE Stepped(t, Leave(r, r.ret))

Step_size(who, t, r) ==
  LET f == Top(r) IN
  IF who = "en" THEN Stepped(t, Answer(r, PyInt(t.size)))
  ELSE IF f.pc = "start" THEN Stepped(t, Enter(r, "called", "size_recursive", t.root, None))
  ELSE Stepped(t, Answer(r, PyInt(r.ret.value)))

Step_size_recursive(who, t, r) ==
  LET f == Top(r) IN
  IF f.pc = "start" THEN
    IF f.node = None THEN Stepped(t, Leave(r, [r.ret EXCEPT !.value = 0]))
    ELSE Stepped(t, Enter(r, "left", "size_recursive", t.nodes[f.node].left, None))
  ELSE IF f.pc = "left"
  THEN Stepped(t, Enter([r EXCEPT !.stack[Len(r.stack)].tmp = r.ret.value], "right",
                        "size_recursive", t.nodes[f.node].right, None))
  ELSE Stepped(t, Leave(r, [r.ret EXCEPT !.value = 1 + f.tmp + r.ret.value]))

Step_height(who, t, r) ==
  LET f == Top(r) IN
  IF who # "ja" THEN Stepped(t, Throw(r, "AttributeError"))
  ELSE IF f.pc = "start" THEN Stepped(t, Enter(r, "called", "height_recursive", t.root, None))
  ELSE Stepped(t, Answer(r, PyInt(r.ret.value)))

Step_height_recursive(who, t, r) ==
  LET f == Top(r) IN
  IF f.pc = "start" THEN
    IF f.node = None THEN Stepped(t, Leave(r, [r.ret EXCEPT !.value = 0]))
    ELSE Stepped(t, Enter(r, "left", "height_recursive", t.nodes[f.node].left, None))
  ELSE IF f.pc = "left"
  THEN Stepped(t, Enter([r EXCEPT !.stack[Len(r.stack)].tmp = r.ret.value], "right",
                        "height_recursive", t.nodes[f.node].right, None))
  ELSE Stepped(t, Leave(r, [r.ret EXCEPT !.value =
                              1 + (IF f.tmp >= r.ret.value THEN f.tmp ELSE r.ret.value)]))

Step_is_empty(who, t, r) == Stepped(t, Answer(r, PyBool(t.root = None)))

\* the next step of the innermost method
StepOf(who, t, r) ==
  LET fn == Top(r).fn IN
  CASE fn = "insert" -> Step_insert(who, t, r)
    [] fn = "insert_recursive" -> Step_insert_recursive(who, t, r)
    [] fn = "search" -> Step_search(who, t, r)
    [] fn = "search_recursive" -> Step_search_recursive(who, t, r)
    [] fn = "delete" -> Step_delete(who, t, r)
    [] fn = "delete_recursive" -> Step_delete_recursive(who, t, r)
    [] fn = "find_min_node" -> Step_find_min_node(who, t, r)
    [] fn = "find_max_node" -> Step_find_max_node(who, t, r)
    [] fn = "find_min" -> Step_find_min(who, t, r)
    [] fn = "find_max" -> Step_find_max(who, t, r)
    [] fn = "inorder_traversal" -> Step_inorder_traversal(who, t, r)
    [] fn = "inorder_recursive" -> Step_inorder_recursive(who, t, r)
    [] fn = "size" -> Step_size(who, t, r)
    [] fn = "size_recursive" -> Step_size_recursive(who, t, r)
    [] fn = "height" -> Step_height(who, t, r)
    [] fn = "height_recursive" -> Step_height_recursive(who, t, r)
    [] fn = "is_empty" -> Step_is_empty(who, t, r)

TreeOf(who) == IF who = "en" THEN en ELSE IF who = "ja" THEN ja ELSE mix

Running == run.who # "none"

\* the arguments of the calls made step by step: of the tree of the example
\* script, a leaf, a node with two leaves, the root, the root's successor (once
\* it is deleted the next successor has a child) and a value not stored; None;
\* a str
StepArgs == {20, 30, 50, 60, 90, None, StrA}

\* the calls made step by step: the inserts of the example script, in its
\* order; once they are made, inserts that add no node and up to MaxDeleted
\* deletes; on the empty tree, deletes; at any time, reads
Callable(op, arg) ==
  \/ /\ op = "insert"
     /\ \/ i < Len(values) /\ arg = values[i + 1]
        \/ i = Len(values) /\ arg \in StepArgs /\ (Stored(en, arg) \/ PyType(arg) # "int")
  \/ /\ op = "delete"
     /\ arg \in StepArgs
     /\ \/ i = 0
        \/ i = Len(values) /\ NodeCount(en) > Len(values) - MaxDeleted
  \/ op = "search" /\ arg \in StepArgs
  \/ /\ op \in {"find_min", "find_max", "inorder_traversal", "size", "height", "is_empty"}
     /\ arg = None

\* the caller calls op(arg): the en variant runs first
Start(op, arg) ==
  /\ ~Running
  /\ Callable(op, arg)
  /\ run' = [Idle EXCEPT !.who = "en", !.op = op, !.arg = arg,
                         !.stack = <<Frame(op, None, arg)>>,
                         !.before = [en |-> en, ja |-> ja, mix |-> mix]]
  /\ UNCHANGED <<en, ja, mix, S, last, i, lists, reader, checker>>

\* the innermost method of the call in progress makes its next step
Step ==
  /\ Running
  /\ run.stack # <<>>
  /\ \A n \in DOMAIN run.visits : run.visits[n] <= MaxVisits
  /\ LET s == StepOf(run.who, TreeOf(run.who), run) IN
       /\ run' = s.run
       /\ en' = (IF run.who = "en" THEN s.tree ELSE en)
       /\ ja' = (IF run.who = "ja" THEN s.tree ELSE ja)
       /\ mix' = (IF run.who = "mix" THEN s.tree ELSE mix)
  /\ UNCHANGED <<S, last, i, lists, reader, checker>>

\* the outermost method has answered: the same call goes to the next variant,
\* and after the last one the caller has the three answers
Finish ==
  /\ Running
  /\ run.stack = <<>>
  /\ en' = (IF run.who = "en" THEN Collect(en) ELSE en)
  /\ ja' = (IF run.who = "ja" THEN Collect(ja) ELSE ja)
  /\ mix' = (IF run.who = "mix" THEN Collect(mix) ELSE mix)
  /\ LET out == [run.out EXCEPT ![run.who] = run.answer] IN
     IF run.who = "mix"
     THEN /\ run' = Idle
          /\ last' = [op |-> run.op, arg |-> run.arg, en |-> out.en, ja |-> out.ja,
                      mix |-> out.mix,
                      had |-> [en |-> Stored(run.before.en, run.arg),
                               ja |-> Stored(run.before.ja, run.arg),
                               mix |-> Stored(run.before.mix, run.arg)]]
          /\ S' = IF PyType(run.arg) # "int" THEN S
                  ELSE IF run.op = "insert" THEN S \cup {run.arg}
                  ELSE IF run.op = "delete" THEN S \ {run.arg}
                  ELSE S
          /\ i' = IF run.op = "insert" /\ i < Len(values) THEN i + 1 ELSE i
     ELSE /\ run' = [Idle EXCEPT !.who = (IF run.who = "en" THEN "ja" ELSE "mix"),
                                 !.op = run.op, !.arg = run.arg,
                                 !.stack = <<Frame(run.op, None, run.arg)>>,
                                 !.out = out, !.before = run.before]
          /\ UNCHANGED <<S, last, i>>
  /\ UNCHANGED <<lists, reader, checker>>

Ops == {"insert", "delete", "search", "find_min", "find_max", "inorder_traversal", "size",
        "height", "is_empty"}

NextSteps == (\E op \in Ops, arg \in StepArgs \cup ExampleArgs : Start(op, arg)) \/ Step \/ Finish

\* the interpreter runs the statements of a call one after the other, to the end
SpecSteps == Init /\ [][NextSteps]_vars /\ WF_vars(Step) /\ WF_vars(Finish)

\* ------------------------------------------- a delete and a reader, interleaved
\* The class has no lock. Here two threads of a caller use one tree without
\* one of their own: one calls delete, the other inorder_traversal or search,
\* and their steps interleave in any order. The tree is the tree of the
\* example script in one of the variants, and the delete is the first one
\* made on it.
Reading == reader.call.who # "none"

\* a node object is released once neither the tree nor a call in progress
\* leads to it
CollectBut(t, held) ==
  LET roots == (IF t.root = None THEN {} ELSE {t.root}) \cup (held \cap DOMAIN t.nodes)
  IN [t EXCEPT !.nodes = [n \in ReachFrom(t, roots) |-> t.nodes[n]]]

\* one thread calls delete(v), v an int, on the tree of variant who
WriterStart(who, v) ==
  /\ PyType(v) = "int"
  /\ i = Len(values)
  /\ ~Running
  /\ Reading => reader.call.who = who
  /\ \A w \in {"en", "ja", "mix"} : NodeCount(TreeOf(w)) = Len(values)
  /\ run' = [Idle EXCEPT !.who = who, !.op = "delete", !.arg = v,
                         !.stack = <<Frame("delete", None, v)>>,
                         !.before = [en |-> en, ja |-> ja, mix |-> mix]]
  /\ reader' = IF Reading THEN [reader EXCEPT !.overlapped = TRUE] ELSE reader
  /\ UNCHANGED <<en, ja, mix, S, last, i, lists, checker>>

\* the other thread calls op(arg), a traversal or a search, on that tree
ReaderStart(who, op, arg) ==
  /\ i = Len(values)
  /\ ~Reading
  /\ Running => run.who = who
  /\ \/ op = "inorder_traversal" /\ arg = None
     \/ op = "search" /\ PyType(arg) = "int"
  /\ reader' = [call |-> [Idle EXCEPT !.who = who, !.op = op, !.arg = arg,
                                      !.stack = <<Frame(op, None, arg)>>,
                                      !.before = [en |-> en, ja |-> ja, mix |-> mix]],
                overlapped |-> Running]
  /\ UNCHANGED <<en, ja, mix, S, last, i, lists, run, checker>>

\* the innermost method of the reader's call makes its next step
ReaderStep ==
  /\ Reading
  /\ reader.call.stack # <<>>
  /\ reader' = [reader EXCEPT !.call = StepOf(@.who, TreeOf(@.who), @).run]
  /\ UNCHANGED <<en, ja, mix, S, last, i, lists, run, checker>>

\* delete has answered its thread
WriterEnd ==
  /\ Running
  /\ run.stack = <<>>
  /\ LET r == reader.call
         held == IF Reading
                 THEN ({r.stack[k].node : k \in 1..Len(r.stack)} \cup {r.ret.node}) \ {None}
                 ELSE {} IN
       /\ en' = (IF run.who = "en" THEN CollectBut(en, held) ELSE en)
       /\ ja' = (IF run.who = "ja" THEN CollectBut(ja, held) ELSE ja)
       /\ mix' = (IF run.who = "mix" THEN CollectBut(mix, held) ELSE mix)
  /\ run' = Idle
  /\ UNCHANGED <<S, last, i, lists, reader, checker>>

\* the traversal or search has answered its thread
ReaderEnd ==
  /\ Reading
  /\ reader.call.stack = <<>>
  /\ LET who == reader.call.who
         held == IF Running THEN DOMAIN TreeOf(who).nodes ELSE {} IN
       /\ en' = (IF who = "en" THEN CollectBut(en, held) ELSE en)
       /\ ja' = (IF who = "ja" THEN CollectBut(ja, held) ELSE ja)
       /\ mix' = (IF who = "mix" THEN CollectBut(mix, held) ELSE mix)
  /\ reader' = NoReader
  /\ UNCHANGED <<S, last, i, lists, run, checker>>

NextTorn ==
  \/ MainInsert
  \/ \E who \in {"en", "ja", "mix"}, v \in StepArgs : WriterStart(who, v)
  \/ \E who \in {"en", "ja", "mix"}, op \in {"inorder_traversal", "search"}, arg \in StepArgs :
       ReaderStart(who, op, arg)
  \/ Step
  \/ ReaderStep
  \/ WriterEnd
  \/ ReaderEnd

\* two threads of a caller that does not serialize its calls
SpecTorn == Init /\ [][NextTorn]_vars

\* --------------------------------------------------- analyze_code_structure
\* the loop of analyze_code_structure goes through one more line
AnalyzeLine ==
  /\ checker.k < Len(checker.lines)
  /\ checker' = analyze_line(checker)
  /\ UNCHANGED <<en, ja, mix, S, last, i, lists, run, reader>>

\* analyze_code_structure is given a file
InitStructure ==
  /\ en = en_init /\ ja = ja_init /\ mix = mix_init
  /\ S = {}
  /\ last = [op |-> "init", arg |-> None, en |-> NoAnswer, ja |-> NoAnswer, mix |-> NoAnswer,
             had |-> [en |-> FALSE, ja |-> FALSE, mix |-> FALSE]]
  /\ i = 0
  /\ lists = [en |-> <<>>, ja |-> <<>>, mix |-> <<>>]
  /\ run = Idle
  /\ reader = NoReader
  /\ checker \in {Opened(lines) : lines \in Files}

SpecStructure == InitStructure /\ [][AnalyzeLine]_vars

\* ------------------------------------------------------- what is claimed
\* a call's result r: it returned v, or raised e, and left the tree object t
Returns(r, t, v) == r.exc = NoExc /\ r.tree = t /\ r.ret = v
Raises(r, t, e) == r.exc = e /\ r.tree = t

\* a recorded outcome o: the call returned v, or raised e
Returned(o, v) == o.exc = NoExc /\ o.ret = v
Raised(o, e) == o.exc = e

\* v can be ordered against every value the tree stores
Comparable(t, v) == \A n \in Reach(t) :
                      CanOrder(v, IF "data" \in DOMAIN t.nodes[n] THEN t.nodes[n].data
                                  ELSE t.nodes[n].value)

Vals(t) == {Key(t, n) : n \in Reach(t)}

Subtree(t, n) == IF n = None THEN {} ELSE ReachFrom(t, {n})

SetMin(X) == CHOOSE x \in X : \A y \in X : x <= y
SetMax(X) == CHOOSE x \in X : \A y \in X : x >= y

RECURSIVE SortedSeq(_)
SortedSeq(X) == IF X = {} THEN <<>> ELSE <<SetMin(X)>> \o SortedSeq(X \ {SetMin(X)})

StrictlyIncreasing(q) == \A a, b \in 1..Len(q) : a < b => q[a] < q[b]

Ordered(t) ==
  \A n \in Reach(t) :
    /\ \A m \in Subtree(t, t.nodes[n].left) : Key(t, m) < Key(t, n)
    /\ \A m \in Subtree(t, t.nodes[n].right) : Key(t, m) > Key(t, n)

NoDuplicate(t) == \A n, m \in Reach(t) : Key(t, n) = Key(t, m) => n = m

TwoChildren(t, n) == t.nodes[n].left # None /\ t.nodes[n].right # None

\* C1: after any sequence of insert and delete calls with int values, in each
\* variant every node's left subtree holds only smaller values and its right
\* subtree only greater ones, no value is stored twice and the in-order
\* traversal is strictly increasing.
C1_BSTOrdering ==
  /\ Ordered(en) /\ Ordered(ja) /\ Ordered(mix)
  /\ NoDuplicate(en) /\ NoDuplicate(ja) /\ NoDuplicate(mix)
  /\ StrictlyIncreasing(en_inorder_traversal(en).ret)
  /\ StrictlyIncreasing(ja_in_order_traversal(ja).ret)
  /\ StrictlyIncreasing(mix_inorder_traversal(mix).ret)

\* a delete has just removed a value from a tree whose root keeps two children
C1_Witness ==
  /\ last.op = "delete" /\ last.en.exc = NoExc /\ last.en.ret = PyBool(TRUE)
  /\ en.root # None /\ TwoChildren(en, en.root)
  /\ ja.root # None /\ TwoChildren(ja, ja.root)
  /\ mix.root # None /\ TwoChildren(mix, mix.root)

\* C2: the in-order traversal of each variant is the ascending sequence of
\* the set S the insert and delete calls describe, each element once.
C2_RefinesSet ==
  /\ en_inorder_traversal(en).ret = SortedSeq(S)
  /\ ja_in_order_traversal(ja).ret = SortedSeq(S)
  /\ mix_inorder_traversal(mix).ret = SortedSeq(S)
  /\ last.op = "inorder_traversal" =>
       /\ Returned(last.en, PyList(SortedSeq(S)))
       /\ Returned(last.ja, PyList(SortedSeq(S)))
       /\ Returned(last.mix, PyList(SortedSeq(S)))

\* a traversal of three or more values was returned, in ascending order
C2_Witness ==
  /\ last.op = "inorder_traversal"
  /\ Cardinality(S) >= 3
  /\ last.en.ret = PyList(SortedSeq(S)) /\ last.ja.ret = PyList(SortedSeq(S)) /\ last.mix.ret = PyList(SortedSeq(S))

\* the int values a call may be given
Probe == IntValues \cup ExampleArgs

\* C3: search(v) returns true exactly for the values inserted and not deleted
\* since (the members of S), and false for every other int value, in each
\* variant.
C3_SearchCorrect ==
  /\ \A v \in Probe :
       /\ Returns(en_search(en, v), en, v \in S)
       /\ Returns(ja_search(ja, v), ja, v \in S)
       /\ Returns(mix_search(mix, v), mix, v \in S)
  /\ last.op = "search" =>
       /\ Returned(last.en, PyBool(last.arg \in S))
       /\ Returned(last.ja, PyBool(last.arg \in S))
       /\ Returned(last.mix, PyBool(last.arg \in S))

\* a search has answered false for a value that is not a member while other
\* values are stored
C3_Witness ==
  /\ last.op = "search" /\ last.arg \notin S /\ Cardinality(S) >= 2
  /\ last.en.ret = PyBool(FALSE) /\ last.ja.ret = PyBool(FALSE) /\ last.mix.ret = PyBool(FALSE)

\* C4: in the en and mix variants delete(v) of a stored value v (not None)
\* returns true, after it search(v) is false, size is one less and every other
\* stored value is still found; delete(v) of a value that is not stored and can
\* be ordered against the stored ones returns false and leaves size and the
\* in-order traversal as they were.  (The Ja variant changes its tree the same
\* way; what it returns or raises is not part of this claim.)
C4_DeleteStep ==
  (last'.op = "delete" /\ last'.arg # None) =>
    LET v == last'.arg IN
    /\ v \in Vals(en) =>
         /\ Returned(last'.en, PyBool(TRUE))
         /\ Returns(en_search(en', v), en', FALSE)
         /\ en_size(en').ret = en_size(en).ret - 1
         /\ \A w \in Vals(en) \ {v} : Returns(en_search(en', w), en', TRUE)
    /\ (v \notin Vals(en) /\ Comparable(en, v)) =>
         /\ Returned(last'.en, PyBool(FALSE))
         /\ en_size(en').ret = en_size(en).ret
         /\ en_inorder_traversal(en').ret = en_inorder_traversal(en).ret
    /\ v \in Vals(mix) =>
         /\ Returned(last'.mix, PyBool(TRUE))
         /\ Returns(mix_search(mix', v), mix', FALSE)
         /\ mix_size(mix').ret = mix_size(mix).ret - 1
         /\ \A w \in Vals(mix) \ {v} : Returns(mix_search(mix', w), mix', TRUE)
    /\ (v \notin Vals(mix) /\ Comparable(mix, v)) =>
         /\ Returned(last'.mix, PyBool(FALSE))
         /\ mix_size(mix').ret = mix_size(mix).ret
         /\ mix_inorder_traversal(mix').ret = mix_inorder_traversal(mix).ret
    /\ v \in Vals(ja) =>
         /\ Returns(ja_search(ja', v), ja', FALSE)
         /\ ja_size(ja').ret = ja_size(ja).ret - 1
         /\ \A w \in Vals(ja) \ {v} : Returns(ja_search(ja', w), ja', TRUE)
    /\ (v \notin Vals(ja) /\ Comparable(ja, v)) =>
         /\ ja_size(ja').ret = ja_size(ja).ret
         /\ ja_in_order_traversal(ja').ret = ja_in_order_traversal(ja).ret

C4_DeleteCorrect == [][C4_DeleteStep]_vars

\* a delete has returned true and left two or more values behind
C4_Witness ==
  /\ last.op = "delete" /\ last.had.en /\ last.had.mix
  /\ last.en.exc = NoExc /\ last.en.ret = PyBool(TRUE)
  /\ last.mix.exc = NoExc /\ last.mix.ret = PyBool(TRUE)
  /\ Cardinality(Vals(en)) >= 2 /\ Cardinality(Vals(mix)) >= 2
  /\ last.arg \notin Vals(en) /\ last.arg \notin Vals(mix)

\* C5: insert(v) of a value v (not None) that a variant's tree already stores
\* raises nothing in that variant and leaves its tree object (root, every
\* node's value and links, _size) exactly as it was.
C5_DuplicateStep ==
  (last'.op = "insert" /\ last'.arg # None) =>
    LET v == last'.arg IN
    /\ v \in Vals(en) => (Returned(last'.en, PyNone) /\ en' = en)
    /\ v \in Vals(ja) => (Returned(last'.ja, PyNone) /\ ja' = ja)
    /\ v \in Vals(mix) => (Returned(last'.mix, PyNone) /\ mix' = mix)

C5_DuplicateInsertNoOp == [][C5_DuplicateStep]_vars

\* an insert has returned while its value was already stored, below the root
C5_Witness ==
  /\ last.op = "insert" /\ last.had.en /\ last.had.ja /\ last.had.mix
  /\ last.en.exc = NoExc /\ last.ja.exc = NoExc /\ last.mix.exc = NoExc
  /\ Key(en, en.root) # last.arg /\ Key(ja, ja.root) # last.arg
  /\ Key(mix, mix.root) # last.arg

\* C6: in the en variant _size equals the number of nodes reachable from root
\* in every state, whatever the calls and however they end; it grows, by one,
\* only in an insert that creates a node, and shrinks, by one, only in a
\* delete that returns true.
C6_SizeStep ==
  /\ en'.size > en.size =>
       /\ en'.size = en.size + 1 /\ last'.op = "insert" /\ last'.en.exc = NoExc
       /\ Cardinality(Reach(en')) = Cardinality(Reach(en)) + 1
  /\ en'.size < en.size =>
       /\ en'.size = en.size - 1 /\ last'.op = "delete"
       /\ Returned(last'.en, PyBool(TRUE))
  /\ (last'.op = "delete" /\ Returned(last'.en, PyBool(TRUE))) =>
       en'.size = en.size - 1

C6_SizeExact ==
  /\ [](en.size = Cardinality(Reach(en)) /\ en_size(en).ret = Cardinality(Reach(en)))
  /\ [][C6_SizeStep]_vars

\* a call has raised TypeError on a tree of two or more nodes whose size is exact
C6_Witness ==
  /\ last.en.exc = "TypeError"
  /\ en.size >= 2 /\ en.size = Cardinality(Reach(en))

\* C7: on a non-empty tree find_min returns the smallest stored value and
\* find_max the largest, the first and the last element of the in-order
\* traversal; after the loop of the example script they are 20 and 80.
C7_MinMax ==
  /\ en.root # None =>
       LET q == en_inorder_traversal(en).ret IN
       /\ Returns(en_find_minimum(en), en, q[1])
       /\ Returns(en_find_maximum(en), en, q[Len(q)])
       /\ q[1] = SetMin(Vals(en)) /\ q[Len(q)] = SetMax(Vals(en))
  /\ ja.root # None =>
       LET q == ja_in_order_traversal(ja).ret IN
       /\ Returns(ja_find_min(ja), ja, q[1])
       /\ Returns(ja_find_max(ja), ja, q[Len(q)])
       /\ q[1] = SetMin(Vals(ja)) /\ q[Len(q)] = SetMax(Vals(ja))
  /\ mix.root # None =>
       LET q == mix_inorder_traversal(mix).ret IN
       /\ Returns(mix_find_min(mix), mix, q[1])
       /\ Returns(mix_find_max(mix), mix, q[Len(q)])
       /\ q[1] = SetMin(Vals(mix)) /\ q[Len(q)] = SetMax(Vals(mix))
  /\ (i = Len(values) /\ Cardinality(S) = Len(values)) =>
       /\ en_find_minimum(en).ret = 20 /\ en_find_maximum(en).ret = 80
       /\ ja_find_min(ja).ret = 20 /\ ja_find_max(ja).ret = 80
       /\ mix_find_min(mix).ret = 20 /\ mix_find_max(mix).ret = 80
  /\ (last.op = "find_min" /\ en.root # None) => last.en.ret = PyVal(SetMin(Vals(en)))
  /\ (last.op = "find_max" /\ en.root # None) => last.en.ret = PyVal(SetMax(Vals(en)))

\* find_max has returned 80 on the tree the example script built
C7_Witness ==
  /\ i = Len(values) /\ Cardinality(S) = Len(values)
  /\ last.op = "find_max"
  /\ last.en.ret = PyVal(80) /\ last.ja.ret = PyVal(80) /\ last.mix.ret = PyVal(80)

\* C8: a tree without a root makes find_min and find_max raise ValueError and
\* stay empty; a tree with a root never makes them raise it.
C8_EmptyTreeErrors ==
  /\ en.root = None => /\ Raises(en_find_minimum(en), en, "ValueError")
                       /\ Raises(en_find_maximum(en), en, "ValueError")
  /\ ja.root = None => /\ Raises(ja_find_min(ja), ja, "ValueError")
                       /\ Raises(ja_find_max(ja), ja, "ValueError")
  /\ mix.root = None => /\ Raises(mix_find_min(mix), mix, "ValueError")
                        /\ Raises(mix_find_max(mix), mix, "ValueError")
  /\ en.root # None => /\ en_find_minimum(en).exc = NoExc
                       /\ en_find_maximum(en).exc = NoExc
  /\ ja.root # None => /\ ja_find_min(ja).exc = NoExc
                       /\ ja_find_max(ja).exc = NoExc
  /\ mix.root # None => /\ mix_find_min(mix).exc = NoExc
                        /\ mix_find_max(mix).exc = NoExc
  /\ last.op \in {"find_min", "find_max"} =>
       /\ last.en.exc = (IF en.root = None THEN "ValueError" ELSE NoExc)
       /\ last.ja.exc = (IF ja.root = None THEN "ValueError" ELSE NoExc)
       /\ last.mix.exc = (IF mix.root = None THEN "ValueError" ELSE NoExc)

\* find_min has raised ValueError in every variant, on the trees of the
\* example script after every one of their values was deleted
C8_Witness ==
  /\ i = Len(values)
  /\ last.op = "find_min"
  /\ Raised(last.en, "ValueError") /\ Raised(last.ja, "ValueError")
  /\ Raised(last.mix, "ValueError")
  /\ en.root = None /\ ja.root = None /\ mix.root = None

\* C9 as claimed: in every variant delete(v) of a value that is not None, can
\* be ordered against the stored values and is not stored (the tree empty or
\* not) returns false without raising.
C9_MissingStep ==
  (last'.op = "delete" /\ last'.arg # None) =>
    LET v == last'.arg IN
    /\ (v \notin Vals(en) /\ Comparable(en, v)) => Returned(last'.en, PyBool(FALSE))
    /\ (v \notin Vals(ja) /\ Comparable(ja, v)) => Returned(last'.ja, PyBool(FALSE))
    /\ (v \notin Vals(mix) /\ Comparable(mix, v)) => Returned(last'.mix, PyBool(FALSE))

C9_DeleteMissingNeverFails == [][C9_MissingStep]_vars

\* C9 as amended: in the en and mix variants delete(v) of a value that is not
\* None, can be ordered against the stored values and is not stored returns
\* false without raising, and neither their delete nor any variant's search
\* raises ValueError for a value that is not None; in the Ja variant that
\* delete raises ValueError and leaves the tree as it was.
C9_AmendedStep ==
  /\ (last'.op = "delete" /\ last'.arg # None) =>
       LET v == last'.arg IN
       /\ (v \notin Vals(en) /\ Comparable(en, v)) => Returned(last'.en, PyBool(FALSE))
       /\ (v \notin Vals(mix) /\ Comparable(mix, v)) => Returned(last'.mix, PyBool(FALSE))
       /\ (v \notin Vals(ja) /\ Comparable(ja, v)) =>
            (Raised(last'.ja, "ValueError") /\ ja' = ja)
  /\ (last'.op = "delete" /\ last'.arg # None) =>
       /\ last'.en.exc # "ValueError" /\ last'.mix.exc # "ValueError"
  /\ (last'.op = "search" /\ last'.arg # None) =>
       /\ last'.en.exc # "ValueError" /\ last'.ja.exc # "ValueError"
       /\ last'.mix.exc # "ValueError"

C9_DeleteMissingAmended == [][C9_AmendedStep]_vars

\* a delete of a value that is not stored has returned false in en and mix and
\* raised ValueError in Ja, on trees that are not empty
C9_Witness ==
  /\ last.op = "delete" /\ last.arg # None
  /\ ~last.had.en /\ ~last.had.ja /\ ~last.had.mix
  /\ en.root # None /\ ja.root # None /\ mix.root # None
  /\ Returned(last.en, PyBool(FALSE))
  /\ Returned(last.mix, PyBool(FALSE))
  /\ Raised(last.ja, "ValueError")

\* C10 as claimed: insert(None) raises in every variant and changes no tree,
\* so no node ever holds None.
C10_NoneNeverStored ==
  /\ None \notin Vals(en) /\ None \notin Vals(ja) /\ None \notin Vals(mix)
  /\ (last.op = "insert" /\ last.arg = None) =>
       /\ last.en.exc # NoExc /\ last.ja.exc # NoExc /\ last.mix.exc # NoExc

\* C11 as claimed: in every variant search(None) and delete(None) raise (they
\* return nothing, not even false) and leave the tree as it was, the empty
\* tree included.
C11_NoneStep ==
  (last'.op \in {"search", "delete"} /\ last'.arg = None) =>
    /\ last'.en.exc \in {"ValueError", "TypeError"} /\ en' = en
    /\ last'.ja.exc \in {"ValueError", "TypeError"} /\ ja' = ja
    /\ last'.mix.exc \in {"ValueError", "TypeError"} /\ mix' = mix

C11_NoneRejected == [][C11_NoneStep]_vars

\* C12: whenever insert, search or delete raises TypeError, the tree object
\* after the call is the tree object before it: the same root, the same
\* nodes with the same values and links, and in the en variant the same _size.
C12_FailedStep ==
  (last'.op \in {"insert", "search", "delete"}) =>
    /\ Raised(last'.en, "TypeError") =>
         (en'.root = en.root /\ en'.nodes = en.nodes /\ en'.size = en.size)
    /\ Raised(last'.ja, "TypeError") => (ja'.root = ja.root /\ ja'.nodes = ja.nodes)
    /\ Raised(last'.mix, "TypeError") => (mix'.root = mix.root /\ mix'.nodes = mix.nodes)

C12_NoPartialMutation == [][C12_FailedStep]_vars

\* a delete of a str has raised TypeError in every variant, on trees of two
\* or more int values
C12_Witness ==
  /\ last.op = "delete" /\ last.arg = StrA
  /\ Raised(last.en, "TypeError") /\ Raised(last.ja, "TypeError")
  /\ Raised(last.mix, "TypeError")
  /\ NodeCount(en) >= 2 /\ NodeCount(ja) >= 2 /\ NodeCount(mix) >= 2
  /\ en.size = NodeCount(en)

\* the calls that only read the tree
ReadOps == {"search", "find_min", "find_max", "inorder_traversal", "size", "height",
            "is_empty"}

\* C13: search, find_min, find_max, the traversal, size, height and is_empty
\* leave the root, every node's value and every link as they were, whether
\* they return or raise; a traversal returns the items the traversal before
\* it returned unless an insert or delete came between; the list it returns
\* is a new list object, none of those the caller holds; and a list the caller
\* holds keeps its items through every later call.
C13_ReadStep ==
  /\ last'.op \in ReadOps =>
       /\ en'.root = en.root /\ en'.nodes = en.nodes /\ en'.size = en.size
       /\ ja'.root = ja.root /\ ja'.nodes = ja.nodes
       /\ mix'.root = mix.root /\ mix'.nodes = mix.nodes
  /\ last'.op = "inorder_traversal" =>
       /\ Returned(last'.en, PyList(en_inorder_traversal(en).ret))
       /\ Returned(last'.ja, PyList(ja_in_order_traversal(ja).ret))
       /\ Returned(last'.mix, PyList(mix_inorder_traversal(mix).ret))
       /\ last.op \in ReadOps =>
            /\ en_inorder_traversal(en').ret = en_inorder_traversal(en).ret
            /\ ja_in_order_traversal(ja').ret = ja_in_order_traversal(ja).ret
            /\ mix_inorder_traversal(mix').ret = mix_inorder_traversal(mix).ret
       /\ last.op = "inorder_traversal" =>
            (last'.en = last.en /\ last'.ja = last.ja /\ last'.mix = last.mix)
       /\ DOMAIN lists'.en \cap DOMAIN lists.en = {}
       /\ DOMAIN lists'.ja \cap DOMAIN lists.ja = {}
       /\ DOMAIN lists'.mix \cap DOMAIN lists.mix = {}
       /\ \A k \in DOMAIN lists'.en : PyList(lists'.en[k]) = last'.en.ret
       /\ \A k \in DOMAIN lists'.ja : PyList(lists'.ja[k]) = last'.ja.ret
       /\ \A k \in DOMAIN lists'.mix : PyList(lists'.mix[k]) = last'.mix.ret
  /\ last'.op # "inorder_traversal" => lists' = lists

C13_ReadOnly == [][C13_ReadStep]_vars

\* an insert has added a second value to the trees while the caller holds the
\* list of a traversal made before it, itself built while the caller held the
\* list of a still earlier traversal: the held list still has its one item
C13_Witness ==
  /\ last.op = "insert" /\ ~last.had.en
  /\ 2 \in DOMAIN lists.en /\ 2 \in DOMAIN lists.ja /\ 2 \in DOMAIN lists.mix
  /\ Len(lists.en[2]) = 1 /\ Len(lists.ja[2]) = 1 /\ Len(lists.mix[2]) = 1
  /\ Len(en_inorder_traversal(en).ret) = 2
  /\ Len(ja_in_order_traversal(ja).ret) = 2
  /\ Len(mix_inorder_traversal(mix).ret) = 2

Empty(t) == t.root = None

\* the call has stored its argument in a new node that is now the root
CreatedRoot(t1, t2, v) ==
  /\ Empty(t1) /\ ~Empty(t2)
  /\ DOMAIN t2.nodes = {t2.root}
  /\ Key(t2, t2.root) = v
  /\ t2.nodes[t2.root].left = None /\ t2.nodes[t2.root].right = None

\* the call has removed the only node, which held its argument
RemovedLast(t1, t2, v) ==
  /\ ~Empty(t1) /\ Empty(t2)
  /\ DOMAIN t1.nodes = {t1.root}
  /\ Key(t1, t1.root) = v
  /\ DOMAIN t2.nodes = {}

C14_EmptyIffNoRoot ==
  /\ en_is_empty(en).ret = Empty(en) /\ Empty(en) = (en_size(en).ret = 0)
  /\ ja_is_empty(ja).ret = Empty(ja) /\ Empty(ja) = (ja_size(ja).ret = 0)
  /\ mix_is_empty(mix).ret = Empty(mix) /\ Empty(mix) = (mix_size(mix).ret = 0)
  /\ last.op = "is_empty" =>
       /\ Returned(last.en, PyBool(Empty(en)))
       /\ Returned(last.ja, PyBool(Empty(ja)))
       /\ Returned(last.mix, PyBool(Empty(mix)))

C14_EmptyStep ==
  LET v == last'.arg
      inserts == last'.op = "insert"
      deletes == last'.op = "delete"
  IN
  /\ Empty(en) # Empty(en') =>
       \/ inserts /\ last'.en.exc = NoExc /\ CreatedRoot(en, en', v)
       \/ deletes /\ Returned(last'.en, PyBool(TRUE)) /\ RemovedLast(en, en', v)
  /\ Empty(ja) # Empty(ja') =>
       \/ inserts /\ last'.ja.exc = NoExc /\ CreatedRoot(ja, ja', v)
       \/ deletes /\ last'.ja.exc = NoExc /\ RemovedLast(ja, ja', v)
  /\ Empty(mix) # Empty(mix') =>
       \/ inserts /\ last'.mix.exc = NoExc /\ CreatedRoot(mix, mix', v)
       \/ deletes /\ Returned(last'.mix, PyBool(TRUE)) /\ RemovedLast(mix, mix', v)
  /\ (inserts /\ last'.en.exc = NoExc) => ~Empty(en')
  /\ (inserts /\ last'.ja.exc = NoExc) => ~Empty(ja')
  /\ (inserts /\ last'.mix.exc = NoExc) => ~Empty(mix')
  /\ (deletes /\ Returned(last'.en, PyBool(TRUE))) => (Empty(en') <=> NodeCount(en) = 1)
  /\ (deletes /\ last'.ja.exc = NoExc) => (Empty(ja') <=> NodeCount(ja) = 1)
  /\ (deletes /\ Returned(last'.mix, PyBool(TRUE))) => (Empty(mix') <=> NodeCount(mix) = 1)

\* C14: in each variant is_empty is true exactly when there is no root,
\* exactly when size is 0; a tree stops being empty only by an insert that
\* creates the root and becomes empty only by a delete that removes its only
\* node; a duplicate insert, a failed delete, search, find_min, find_max, a
\* traversal, size, height and is_empty do not change it.
C14_EmptyStateMachine == [](C14_EmptyIffNoRoot) /\ [][C14_EmptyStep]_vars

\* is_empty has answered true in every variant, on trees a delete emptied
\* after the example script had filled them
C14_Witness ==
  /\ i = Len(values)
  /\ last.op = "is_empty"
  /\ Returned(last.en, PyBool(TRUE)) /\ Returned(last.ja, PyBool(TRUE))
  /\ Returned(last.mix, PyBool(TRUE))
  /\ Empty(en) /\ Empty(ja) /\ Empty(mix)

\* the number of nodes on the path from the root to node n
Depth(t, n) == Cardinality({a \in Reach(t) : n \in Subtree(t, a)})

\* the number of nodes on the longest path from the root to a leaf
LongestPath(t) == IF Reach(t) = {} THEN 0 ELSE SetMax({Depth(t, n) : n \in Reach(t)})

Max(a, b) == IF a >= b THEN a ELSE b

\* C15: in the Ja variant height() is 0 for the empty tree, 1 for a tree of
\* one node and otherwise 1 + the greater of the heights of the root's
\* subtrees (0 for an absent child); it is the number of nodes on the longest
\* path from the root to a leaf, and it never exceeds size().
C15_Height ==
  LET h == ja_height(ja) IN
  /\ h.exc = NoExc /\ h.tree = ja
  /\ Empty(ja) => h.ret = 0
  /\ NodeCount(ja) = 1 => h.ret = 1
  /\ ~Empty(ja) =>
       h.ret = 1 + Max(LongestPath([ja EXCEPT !.root = ja.nodes[ja.root].left]),
                       LongestPath([ja EXCEPT !.root = ja.nodes[ja.root].right]))
  /\ h.ret = LongestPath(ja)
  /\ h.ret <= ja_size(ja).ret
  /\ last.op = "height" => Returned(last.ja, PyInt(LongestPath(ja)))

\* height has answered 3 on the tree of the seven values of the example
\* script, and 2 is the height of its left subtree
C15_Witness ==
  /\ i = Len(values)
  /\ last.op = "height"
  /\ Returned(last.ja, PyInt(3))
  /\ ja_size(ja).ret = 7
  /\ ja_height_recursive(ja, ja.nodes[ja.root].left) = 2

\* the sequence q without its items equal to v
Without(q, v) == LET Keep(x) == x # v IN SelectSeq(q, Keep)

\* C17: in the Ja variant delete(data), data not None, raises ValueError when
\* the tree is empty or does not store data, and then the root, the nodes,
\* their data and their links are as before; when the tree stores data the
\* call returns None and removes data and nothing else.
C17_JaDeleteStep ==
  (last'.op = "delete" /\ last'.arg # None) =>
    LET data == last'.arg IN
    /\ Empty(ja) => Raised(last'.ja, "ValueError")
    /\ (data \notin Vals(ja) /\ Comparable(ja, data)) => Raised(last'.ja, "ValueError")
    /\ Raised(last'.ja, "ValueError") =>
         /\ data \notin Vals(ja)
         /\ ja'.root = ja.root /\ ja'.nodes = ja.nodes
    /\ data \in Vals(ja) =>
         /\ Returned(last'.ja, PyNone)
         /\ Vals(ja') = Vals(ja) \ {data}
         /\ NodeCount(ja') = NodeCount(ja) - 1
         /\ ja_in_order_traversal(ja').ret = Without(ja_in_order_traversal(ja).ret, data)

C17_JaDeleteContract == [][C17_JaDeleteStep]_vars

\* the Ja variant has returned None from delete(50) on the tree of the seven
\* values of the example script, whose root had two children
C17_Witness ==
  /\ i = Len(values)
  /\ last.op = "delete" /\ last.arg = 50 /\ last.had.ja
  /\ Returned(last.ja, PyNone)
  /\ NodeCount(ja) = 6
  /\ 50 \notin Vals(ja)

\* the node that holds v
NodeOf(t, v) == CHOOSE n \in Reach(t) : Key(t, n) = v

\* the links that point to node n: the root, or a child slot of a node
LinksTo(t, n) ==
  {<<p, "left">> : p \in {q \in Reach(t) : t.nodes[q].left = n}}
    \cup {<<p, "right">> : p \in {q \in Reach(t) : t.nodes[q].right = n}}
    \cup (IF t.root = n THEN {<<None, "root">>} ELSE {})

\* the values the nodes of X hold
KeysOf(t, X) == {Key(t, n) : n \in X}

\* tree t2 is tree t1 after the node M of t1 that holds v, a node with two
\* children, took the least value of its right subtree and the node s that
\* held that value was removed
Promoted(t1, t2, v) ==
  LET M == NodeOf(t1, v)
      L == t1.nodes[M].left
      R == t1.nodes[M].right
      least == SetMin(KeysOf(t1, Subtree(t1, R)))
      s == NodeOf(t1, least)
  IN /\ M \in Reach(t2)
     /\ LinksTo(t2, M) = LinksTo(t1, M)
     /\ t2.nodes[M].left = L
     /\ Subtree(t2, L) = Subtree(t1, L)
     /\ \A n \in Subtree(t1, L) : t2.nodes[n] = t1.nodes[n]
     /\ Key(t2, M) = least
     /\ s \in Subtree(t1, R)
     /\ DOMAIN t2.nodes = DOMAIN t1.nodes \ {s}
     /\ Subtree(t2, t2.nodes[M].right) = Subtree(t1, R) \ {s}
     /\ \A n \in DOMAIN t2.nodes \ {M} : Key(t2, n) = Key(t1, n)

HasTwoChildren(t, v) == v \in Vals(t) /\ TwoChildren(t, NodeOf(t, v))

\* C18: when delete(v) matches a node with two children, that node stays
\* where it is (the same object, under the same link, with the same left
\* child and left subtree), its value becomes the least value of its right
\* subtree, the node that held that value is removed from the right subtree
\* and no other node's value changes; delete(50) on the tree built from
\* 50, 30, 70, 20, 40, 60, 80 leaves the root holding 60 and the traversal
\* 20, 30, 40, 60, 70, 80.
C18_PromotionStep ==
  (last'.op = "delete" /\ last'.arg # None) =>
    LET v == last'.arg IN
    /\ HasTwoChildren(en, v) => Promoted(en, en', v)
    /\ HasTwoChildren(ja, v) => Promoted(ja, ja', v)
    /\ HasTwoChildren(mix, v) => Promoted(mix, mix', v)
    /\ (v = 50 /\ Vals(en) = {values[k] : k \in 1..Len(values)}) =>
         /\ en'.root = en.root /\ Key(en', en'.root) = 60
         /\ en_inorder_traversal(en').ret = <<20, 30, 40, 60, 70, 80>>
    /\ (v = 50 /\ Vals(ja) = {values[k] : k \in 1..Len(values)}) =>
         /\ ja'.root = ja.root /\ Key(ja', ja'.root) = 60
         /\ ja_in_order_traversal(ja').ret = <<20, 30, 40, 60, 70, 80>>
    /\ (v = 50 /\ Vals(mix) = {values[k] : k \in 1..Len(values)}) =>
         /\ mix'.root = mix.root /\ Key(mix', mix'.root) = 60
         /\ mix_inorder_traversal(mix').ret = <<20, 30, 40, 60, 70, 80>>

C18_SuccessorPromotion == [][C18_PromotionStep]_vars

\* delete(50) was the first delete on the tree of the seven values of the
\* example script: in every variant the root is the node it was and holds 60
C18_Witness ==
  /\ i = Len(values)
  /\ last.op = "delete" /\ last.arg = 50
  /\ S = {20, 30, 40, 60, 70, 80}
  /\ en.root = 1 /\ Key(en, en.root) = 60 /\ NodeCount(en) = 6
  /\ ja.root = 1 /\ Key(ja, ja.root) = 60 /\ NodeCount(ja) = 6
  /\ mix.root = 1 /\ Key(mix, mix.root) = 60 /\ NodeCount(mix) = 6

\* the fields of node n of t2 are those it had in t1, but for a link to node
\* M, which now leads to c
Relinked(t1, t2, n, M, c) ==
  /\ Key(t2, n) = Key(t1, n)
  /\ t2.nodes[n].left = (IF t1.nodes[n].left = M THEN c ELSE t1.nodes[n].left)
  /\ t2.nodes[n].right = (IF t1.nodes[n].right = M THEN c ELSE t1.nodes[n].right)

\* tree t2 is tree t1 after the one link to the node M that holds v, a node
\* with at most one child, was set to that child, or to None
Unlinked(t1, t2, v) ==
  LET M == NodeOf(t1, v)
      c == IF t1.nodes[M].left # None THEN t1.nodes[M].left ELSE t1.nodes[M].right
  IN /\ Cardinality(LinksTo(t1, M)) = 1
     /\ DOMAIN t2.nodes = DOMAIN t1.nodes \ {M}
     /\ t2.root = (IF t1.root = M THEN c ELSE t1.root)
     /\ \A n \in DOMAIN t2.nodes : Relinked(t1, t2, n, M, c)
     /\ \A a, b \in DOMAIN t2.nodes : (b \in Subtree(t2, a)) <=> (b \in Subtree(t1, a))

AtMostOneChild(t, v) == v \in Vals(t) /\ ~TwoChildren(t, NodeOf(t, v))

\* C19: when delete(v) matches a node without children, the link to it (a
\* child slot of its parent, or the root) becomes None; when it matches a
\* node with one child, that link is set to the child; every other node keeps
\* its value and both links, and a remaining node is below another after the
\* call exactly if it was before; delete(20) on the tree of the seven values
\* of the example leaves the root as it was and drops 20 only from the
\* traversal.
C19_UnlinkStep ==
  (last'.op = "delete" /\ last'.arg # None) =>
    LET v == last'.arg IN
    /\ AtMostOneChild(en, v) => Unlinked(en, en', v)
    /\ AtMostOneChild(ja, v) => Unlinked(ja, ja', v)
    /\ AtMostOneChild(mix, v) => Unlinked(mix, mix', v)
    /\ (v = 20 /\ Vals(en) = {values[k] : k \in 1..Len(values)}) =>
         /\ en'.root = en.root /\ en'.nodes[en'.root] = en.nodes[en.root]
         /\ en_inorder_traversal(en').ret = <<30, 40, 50, 60, 70, 80>>
    /\ (v = 20 /\ Vals(ja) = {values[k] : k \in 1..Len(values)}) =>
         /\ ja'.root = ja.root /\ ja'.nodes[ja'.root] = ja.nodes[ja.root]
         /\ ja_in_order_traversal(ja').ret = <<30, 40, 50, 60, 70, 80>>
    /\ (v = 20 /\ Vals(mix) = {values[k] : k \in 1..Len(values)}) =>
         /\ mix'.root = mix.root /\ mix'.nodes[mix'.root] = mix.nodes[mix.root]
         /\ mix_inorder_traversal(mix').ret = <<30, 40, 50, 60, 70, 80>>

C19_OneLinkChanges == [][C19_UnlinkStep]_vars

\* after delete(20), delete(30) has matched a node whose only child held 40:
\* in every variant the root's left link now leads to the node holding 40
C19_Witness ==
  /\ i = Len(values)
  /\ last.op = "delete" /\ last.arg = 30
  /\ S = {40, 50, 60, 70, 80}
  /\ Key(en, en.nodes[en.root].left) = 40
  /\ Key(ja, ja.nodes[ja.root].left) = 40
  /\ Key(mix, mix.nodes[mix.root].left) = 40
  /\ Key(en, en.root) = 50 /\ Key(ja, ja.root) = 50 /\ Key(mix, mix.root) = 50

\* a link of t2 is the link it was in t1, or leads to the new node N from a
\* slot that was None
SameOrNew(l1, l2, N) == l2 = l1 \/ (l1 = None /\ l2 = N)

\* tree t2 is tree t1 with one more node, a leaf holding v, at the end of the
\* descent from the root that goes left where v is smaller and right where v
\* is greater
Added(t1, t2, v) ==
  LET new == DOMAIN t2.nodes \ DOMAIN t1.nodes
      N == CHOOSE n \in new : TRUE
  IN /\ Cardinality(new) = 1
     /\ DOMAIN t1.nodes \subseteq DOMAIN t2.nodes
     /\ Key(t2, N) = v
     /\ t2.nodes[N].left = None /\ t2.nodes[N].right = None
     /\ N \in Reach(t2)
     /\ Cardinality(LinksTo(t2, N)) = 1
     /\ t2.root = (IF Empty(t1) THEN N ELSE t1.root)
     /\ \A n \in DOMAIN t1.nodes :
          /\ Key(t2, n) = Key(t1, n)
          /\ SameOrNew(t1.nodes[n].left, t2.nodes[n].left, N)
          /\ SameOrNew(t1.nodes[n].right, t2.nodes[n].right, N)
          /\ N \in Subtree(t2, t2.nodes[n].left) => v < Key(t1, n)
          /\ N \in Subtree(t2, t2.nodes[n].right) => v > Key(t1, n)

\* C20: insert(v) of a value that is not stored creates exactly one node,
\* holding v with both links None, in the first None slot met going down from
\* the root, left where v is smaller than the node's value and right where it
\* is greater (the root on an empty tree); every node there was keeps its
\* value and its links, but for the one slot that now leads to the new node.
C20_AddStep ==
  (last'.op = "insert" /\ last'.arg # None) =>
    LET v == last'.arg IN
    /\ (v \notin Vals(en) /\ Comparable(en, v)) => Added(en, en', v)
    /\ (v \notin Vals(ja) /\ Comparable(ja, v)) => Added(ja, ja', v)
    /\ (v \notin Vals(mix) /\ Comparable(mix, v)) => Added(mix, mix', v)

C20_InsertAddsOneLeaf == [][C20_AddStep]_vars

\* insert(60), not stored before, has made the tree of the example script a
\* tree of six nodes: in every variant the new node is the left child of the
\* node holding 70
C20_Witness ==
  /\ i = 6
  /\ last.op = "insert" /\ last.arg = 60
  /\ ~last.had.en /\ ~last.had.ja /\ ~last.had.mix
  /\ en.nodes[NodeOf(en, 70)].left = NodeOf(en, 60) /\ NodeCount(en) = 6
  /\ ja.nodes[NodeOf(ja, 70)].left = NodeOf(ja, 60) /\ NodeCount(ja) = 6
  /\ mix.nodes[NodeOf(mix, 70)].left = NodeOf(mix, 60) /\ NodeCount(mix) = 6

\* the call op(arg) on tree t of variant who, as a whole
Whole(who, op, t, arg) ==
  IF who = "en" THEN
    CASE op = "insert" -> NoneOf(en_insert(t, arg))
      [] op = "delete" -> BoolOf(en_delete(t, arg))
      [] op = "search" -> BoolOf(en_search(t, arg))
      [] op = "find_min" -> ValOf(en_find_minimum(t))
      [] op = "find_max" -> ValOf(en_find_maximum(t))
      [] op = "inorder_traversal" -> ListOf(en_inorder_traversal(t))
      [] op = "size" -> IntOf(en_size(t))
      [] op = "height" -> IntOf(en_no_attribute(t))
      [] op = "is_empty" -> BoolOf(en_is_empty(t))
  ELSE IF who = "ja" THEN
    CASE op = "insert" -> NoneOf(ja_insert(t, arg))
      [] op = "delete" -> NoneOf(ja_delete(t, arg))
      [] op = "search" -> BoolOf(ja_search(t, arg))
      [] op = "find_min" -> ValOf(ja_find_min(t))
      [] op = "find_max" -> ValOf(ja_find_max(t))
      [] op = "inorder_traversal" -> ListOf(ja_in_order_traversal(t))
      [] op = "size" -> IntOf(ja_size(t))
      [] op = "height" -> IntOf(ja_height(t))
      [] op = "is_empty" -> BoolOf(ja_is_empty(t))
  ELSE
    CASE op = "insert" -> NoneOf(mix_insert(t, arg))
      [] op = "delete" -> BoolOf(mix_delete(t, arg))
      [] op = "search" -> BoolOf(mix_search(t, arg))
      [] op = "find_min" -> ValOf(mix_find_min(t))
      [] op = "find_max" -> ValOf(mix_find_max(t))
      [] op = "inorder_traversal" -> ListOf(mix_inorder_traversal(t))
      [] op = "size" -> IntOf(mix_size(t))
      [] op = "height" -> IntOf(mix_no_attribute(t))
      [] op = "is_empty" -> BoolOf(mix_is_empty(t))

\* a call followed step by step ends with the tree and the answer of the call
\* taken as a whole
StepsAgreeStep ==
  (Running /\ run.stack = <<>>) =>
    LET whole == Whole(run.who, run.op, run.before[run.who], run.arg) IN
    /\ run.answer = whole.out
    /\ run.who = "en" => en' = whole.tree
    /\ run.who = "ja" => ja' = whole.tree
    /\ run.who = "mix" => mix' = whole.tree

StepsAgree == [][StepsAgreeStep]_vars

\* C16: every call of insert, search, delete, find_min, find_max, the
\* traversal, size, height and is_empty, followed step by step on a reachable
\* tree, comes to its end, returning or raising, and no method is entered
\* with, and no loop reaches, the same node more than twice in one call.
C16_VisitsBounded == \A n \in DOMAIN run.visits : run.visits[n] <= 2

C16_Terminates == [](C16_VisitsBounded) /\ (Running ~> ~Running)

\* delete(50) on the tree of the seven values of the example script, followed
\* step by step in the mix variant, has answered true after the loop of
\* _find_min_node and the removal of the successor: the right child of the
\* root was visited twice, no node more often
C16_Witness ==
  /\ run.who = "mix" /\ run.op = "delete" /\ run.arg = 50
  /\ run.stack = <<>>
  /\ Returned(run.answer, PyBool(TRUE))
  /\ NodeCount(run.before.mix) = 7
  /\ run.visits[mix.nodes[mix.root].right] = 2
  /\ Returned(run.out.en, PyBool(TRUE)) /\ Returned(run.out.ja, PyNone)

\* the frames of the call in progress r that run _delete_recursive
DeleteFrames(r) == {k \in 1..Len(r.stack) : r.stack[k].fn = "delete_recursive"}

\* those that matched a node with two children and have not returned yet
TwoChildFrames(r) == {k \in DeleteFrames(r) : r.stack[k].pc \in {"successor", "removed"}}

\* the delete in progress has answered that it removed its value
DeleteSucceeded(r) ==
  /\ r.op = "delete" /\ r.stack = <<>>
  /\ Returned(r.answer, IF r.who = "ja" THEN PyNone ELSE PyBool(TRUE))

\* C21: during a delete at most one call of _delete_recursive is in the
\* two-child case; once the matched node has taken the successor value, every
\* nested call of _delete_recursive looks for that value, is given a node
\* (never None: the value is found), goes down by left links only, never
\* enters the two-child case, and the node it matches has no left child; the
\* nested call returns the flag true; and a delete that succeeds leaves
\* exactly one node fewer reachable from the root.
C21_NestedDelete ==
  (Running /\ run.op = "delete") =>
    LET t == TreeOf(run.who) IN
    /\ Cardinality(TwoChildFrames(run)) <= 1
    /\ \A k \in TwoChildFrames(run) : run.stack[k].pc = "removed" =>
         /\ \A j \in DeleteFrames(run) : j > k =>
              LET f == run.stack[j] IN
              /\ f.node # None
              /\ f.value = Key(t, run.stack[k].node)
              /\ f.pc \in {"start", "left"}
              /\ (f.pc = "start" /\ Key(t, f.node) = f.value) => t.nodes[f.node].left = None
         /\ Len(run.stack) = k => run.ret.flag
    /\ DeleteSucceeded(run) =>
         /\ Reach(t) \subseteq DOMAIN run.before[run.who].nodes
         /\ Cardinality(DOMAIN run.before[run.who].nodes \ Reach(t)) = 1

\* delete(50), after delete(60), on the tree of the example script, in the en
\* variant: the root has taken the value 70 and the nested call has reached
\* the node that held 70, which has no left child and one right child
C21_Witness ==
  /\ run.who = "en" /\ run.op = "delete" /\ run.arg = 50
  /\ NodeCount(run.before.en) = 6
  /\ Len(run.stack) = 3
  /\ run.stack[2].pc = "removed" /\ run.stack[2].node = en.root
  /\ Key(en, en.root) = 70
  /\ Top(run).fn = "delete_recursive" /\ Top(run).pc = "start"
  /\ Key(en, Top(run).node) = 70
  /\ en.nodes[Top(run).node].left = None /\ en.nodes[Top(run).node].right # None

\* the links that lead to node n from any node object of t, or from root
LinksIn(t, n) ==
  {<<p, "left">> : p \in {q \in DOMAIN t.nodes : t.nodes[q].left = n}}
    \cup {<<p, "right">> : p \in {q \in DOMAIN t.nodes : t.nodes[q].right = n}}
    \cup (IF t.root = n THEN {<<None, "root">>} ELSE {})

\* the nodes below node n
Below(t, n) == ReachFrom(t, Children(t, {n}))

\* the node objects of t, from root, form a tree
IsTree(t) ==
  /\ t.root # None => t.root \in DOMAIN t.nodes
  /\ DOMAIN t.nodes \subseteq Reach(t)
  /\ \A n \in DOMAIN t.nodes :
       /\ t.nodes[n].left \in DOMAIN t.nodes \cup {None}
       /\ t.nodes[n].right \in DOMAIN t.nodes \cup {None}
       /\ n \notin Below(t, n)
       /\ Cardinality(LinksIn(t, n)) = 1
       /\ t.nodes[n].left # None => t.nodes[n].left # t.nodes[n].right
       /\ t.root # t.nodes[n].left /\ t.root # t.nodes[n].right

\* the node a delete of v unlinks: the node that holds v, or the node that
\* holds the least value of its right subtree when it has two children
Leaving(t, v) ==
  LET M == NodeOf(t, v) IN
  IF TwoChildren(t, M)
  THEN NodeOf(t, SetMin(KeysOf(t, Subtree(t, t.nodes[M].right))))
  ELSE M

\* tree t2 is tree t1 after the delete of v unlinked a node: that node is not
\* reachable from the root, no node that is leads to it, the others all are
Dropped(t1, t2, v) ==
  LET u == Leaving(t1, v) IN
  /\ u \notin Reach(t2)
  /\ \A n \in Reach(t2) : t2.nodes[n].left # u /\ t2.nodes[n].right # u
  /\ Reach(t2) = Reach(t1) \ {u}

C22_UnlinkedStep ==
  (last'.op = "delete" /\ PyType(last'.arg) = "int") =>
    LET v == last'.arg IN
    /\ (v \in Vals(en) /\ Comparable(en, v)) => Dropped(en, en', v)
    /\ (v \in Vals(ja) /\ Comparable(ja, v)) => Dropped(ja, ja', v)
    /\ (v \in Vals(mix) /\ Comparable(mix, v)) => Dropped(mix, mix', v)

\* C22: in every state reached by insert and delete calls (whatever their
\* arguments and however they end) the node objects of each variant form a
\* tree: every link leads to a node object, no node is below itself, each node
\* is led to by exactly one link (the root by root only, any other by one
\* child slot of one node), never by both slots of one node, and every node
\* object is reachable from root; the node a delete unlinks is not reachable
\* from root afterwards, and every other node still is.
C22_TreeShape == [](IsTree(en) /\ IsTree(ja) /\ IsTree(mix)) /\ [][C22_UnlinkedStep]_vars

\* delete(70), after delete(50), on the tree of the example script: the node
\* that held 80 was unlinked, and the five nodes left form a tree under the
\* root, which holds 60
C22_Witness ==
  /\ i = Len(values)
  /\ last.op = "delete" /\ last.arg = 70
  /\ S = {20, 30, 40, 60, 80}
  /\ NodeCount(en) = 5 /\ NodeCount(ja) = 5 /\ NodeCount(mix) = 5
  /\ Key(en, en.root) = 60 /\ Key(ja, ja.root) = 60 /\ Key(mix, mix.root) = 60
  /\ IsTree(en) /\ IsTree(ja) /\ IsTree(mix)

\* the subtree at node n as a value: <<>> for None, otherwise the shape of the
\* left subtree, the value of n and the shape of the right subtree
RECURSIVE Shape(_, _)
Shape(t, n) ==
  IF n = None THEN <<>>
  ELSE <<Shape(t, t.nodes[n].left), Key(t, n), Shape(t, t.nodes[n].right)>>

\* what a call answered, whether it returned or raised
Answered(r) == <<r.exc, r.ret>>

\* C24: after every call of a sequence of insert and delete calls with int
\* values, made on the three variants from empty trees, the three trees have
\* the same shape with the same value at every position, hence the same
\* traversal, the same size, the same answer of search for every int value and
\* the same answer of find_min and find_max (a value, or ValueError when
\* empty); a delete of a value that is not stored, which en and mix answer
\* with false and Ja with ValueError, leaves them equal as well.
C24_VariantsAgree ==
  /\ Shape(en, en.root) = Shape(ja, ja.root)
  /\ Shape(en, en.root) = Shape(mix, mix.root)
  /\ en_inorder_traversal(en).ret = ja_in_order_traversal(ja).ret
  /\ en_inorder_traversal(en).ret = mix_inorder_traversal(mix).ret
  /\ en_size(en).ret = ja_size(ja).ret /\ en_size(en).ret = mix_size(mix).ret
  /\ \A v \in Probe :
       /\ Answered(en_search(en, v)) = Answered(ja_search(ja, v))
       /\ Answered(en_search(en, v)) = Answered(mix_search(mix, v))
  /\ Answered(en_find_minimum(en)) = Answered(ja_find_min(ja))
  /\ Answered(en_find_minimum(en)) = Answered(mix_find_min(mix))
  /\ Answered(en_find_maximum(en)) = Answered(ja_find_max(ja))
  /\ Answered(en_find_maximum(en)) = Answered(mix_find_max(mix))
  /\ (last.op = "delete" /\ ~last.had.en) =>
       /\ ~last.had.ja /\ ~last.had.mix
       /\ Returned(last.en, PyBool(FALSE)) /\ Returned(last.mix, PyBool(FALSE))
       /\ Raised(last.ja, "ValueError")
  /\ (last.op = "delete" /\ last.had.en) =>
       /\ last.had.ja /\ last.had.mix
       /\ Returned(last.en, PyBool(TRUE)) /\ Returned(last.mix, PyBool(TRUE))
       /\ Returned(last.ja, PyNone)

\* delete(90), not stored, was answered with false by en and mix and with
\* ValueError by Ja, after delete(50) had replaced the value of the root on
\* the tree of the example script: the three trees have one shape, 60 at the
\* root above two nodes on the left and two on the right
C24_Witness ==
  /\ i = Len(values)
  /\ last.op = "delete" /\ last.arg = 90
  /\ Returned(last.en, PyBool(FALSE)) /\ Returned(last.mix, PyBool(FALSE))
  /\ Raised(last.ja, "ValueError")
  /\ S = {20, 30, 40, 60, 70, 80}
  /\ Shape(ja, ja.root) = Shape(en, en.root) /\ Shape(mix, mix.root) = Shape(en, en.root)
  /\ Shape(en, en.root)[2] = 60
  /\ Shape(en, en.root)[3] = <<<<>>, 70, <<<<>>, 80, <<>>>>>>

C25_Protocol ==
  /\ Returns(ja_len(ja), ja, Cardinality(Reach(ja)))
  /\ Returns(ja_size(ja), ja, Cardinality(Reach(ja)))
  /\ \A v \in AllValues :
       /\ (v # None /\ Comparable(ja, v)) =>
            /\ ja_search(ja, v).exc = NoExc
            /\ Returns(ja_contains(ja, v), ja, ja_search(ja, v).ret)
            /\ ja_contains(ja, v).ret = (v \in Vals(ja))
       /\ (v = None \/ ~Comparable(ja, v)) => Returns(ja_contains(ja, v), ja, FALSE)
  /\ Raises(ja_search(ja, None), ja, "TypeError")
  /\ last.op = "len" => Returned(last.ja, PyInt(Cardinality(Reach(ja))))
  /\ last.op = "contains" =>
       Returned(last.ja, PyBool(last.arg # None /\ last.arg \in Vals(ja)))
  /\ (last.op = "search" /\ last.arg = None) => Raised(last.ja, "TypeError")

C25_ProtocolStep ==
  last'.op \in {"len", "contains"} => (ja'.root = ja.root /\ ja'.nodes = ja.nodes)

\* C25: in the Ja variant, in every reachable state, len(tree) and size() are
\* the number of nodes; v in tree is what search(v) returns, true exactly for
\* a stored value, for every v that is not None and can be ordered against the
\* stored values; None in tree and v in tree for a v that cannot be ordered
\* against the stored values are false and raise nothing, while search(None)
\* raises TypeError; and neither operator changes the tree.
C25_OperatorProtocol == [](C25_Protocol) /\ [][C25_ProtocolStep]_vars

\* None in tree has answered false on a tree of two or more int values, where
\* search(None) raises TypeError and a str cannot be ordered against the values
C25_Witness ==
  /\ last.op = "contains" /\ last.arg = None
  /\ Returned(last.ja, PyBool(FALSE))
  /\ NodeCount(ja) >= 2 /\ ~Comparable(ja, StrA)
  /\ Raises(ja_search(ja, None), ja, "TypeError")
  /\ Returns(ja_len(ja), ja, NodeCount(ja))

\* the nodes reachable from root that hold v
Holding(t, v) == {n \in Reach(t) : Key(t, n) = v}

\* the frames of _delete_recursive that have overwritten the value of a node
\* with two children and wait for the removal of the successor value
Overwritten(r) == {k \in DeleteFrames(r) : r.stack[k].pc = "removed"}

\* between the overwrite and the unlinking: the value the matched node took is
\* held by two nodes, the deleted value by none, every other value by one
TornBy(t, r, k) ==
  LET successor_value == Key(t, r.stack[k].node)
      before == r.before[r.who]
  IN /\ Cardinality(Holding(t, successor_value)) = 2
     /\ Holding(t, r.arg) = {}
     /\ r.arg \in Vals(before) /\ successor_value \in Vals(before)
     /\ Vals(t) = Vals(before) \ {r.arg}
     /\ \A v \in Vals(t) \ {successor_value} : Cardinality(Holding(t, v)) = 1
     /\ Reach(t) = Reach(before)

\* the delete in progress has just overwritten the value of the matched node:
\* the call that removes the successor value is entered and has made no step
JustOverwritten(t, r) ==
  /\ Len(r.stack) >= 2
  /\ Len(r.stack) - 1 \in Overwritten(r)
  /\ Top(r).fn = "delete_recursive" /\ Top(r).pc = "start"
  /\ Top(r).node = t.nodes[r.stack[Len(r.stack) - 1].node].right

\* a value is held by two nodes of the tree of variant who only while a
\* delete on it is between the overwrite and the unlinking
C23_TornOnlyInDelete(who) ==
  LET t == TreeOf(who) IN
  /\ ~NoDuplicate(t) =>
       /\ Running /\ run.who = who /\ run.op = "delete"
       /\ \E k \in Overwritten(run) : TornBy(t, run, k)
  /\ (Running /\ run.who = who /\ JustOverwritten(t, run)) =>
       TornBy(t, run, Len(run.stack) - 1)

\* a traversal or search that no delete overlapped answers as the call taken
\* as a whole does, on a tree that is as it was when the call began
C23_SerializedReader ==
  (Reading /\ reader.call.stack = <<>> /\ ~reader.overlapped) =>
    LET who == reader.call.who
        t == TreeOf(who)
    IN /\ reader.call.answer = Whole(who, reader.call.op, t, reader.call.arg).out
       /\ Shape(t, t.root) = Shape(reader.call.before[who], reader.call.before[who].root)
       /\ reader.call.answer =
            Whole(who, reader.call.op, reader.call.before[who], reader.call.arg).out

\* C23: when one thread's delete and another thread's traversal or search
\* interleave on one tree, a tree holds a value in two nodes only between the
\* overwrite of the value of a matched node with two children and the unlinking
\* of the successor node; right after the overwrite the successor value is
\* held by two nodes and the deleted value by none, so that a reader can see a
\* sequence that is the traversal neither before nor after the delete; and a
\* traversal or search that no delete overlaps answers what the tree holds.
C23_TornTree ==
  /\ \A who \in {"en", "ja", "mix"} : C23_TornOnlyInDelete(who)
  /\ C23_SerializedReader

\* delete(50) and a traversal, on the tree of the example script in the en
\* variant, have both answered: the traversal returned 20, 30, 40, 60, 60, 70,
\* 80, with the successor value twice and the deleted value missing, which is
\* the traversal neither of the tree before the delete nor of the tree after
C23_Witness ==
  /\ Running /\ run.who = "en" /\ run.arg = 50 /\ DeleteSucceeded(run)
  /\ Reading /\ reader.call.who = "en" /\ reader.call.op = "inorder_traversal"
  /\ reader.call.stack = <<>> /\ reader.overlapped
  /\ reader.call.answer.ret = PyList(<<20, 30, 40, 60, 60, 70, 80>>)
  /\ en_inorder_traversal(run.before.en).ret = <<20, 30, 40, 50, 60, 70, 80>>
  /\ en_inorder_traversal(en).ret = <<20, 30, 40, 60, 70, 80>>
  /\ reader.call.answer # Whole("en", "inorder_traversal", run.before.en, None).out
  /\ reader.call.answer # Whole("en", "inorder_traversal", en, None).out

\* the triple-quoted string that is open after the tokens of stripped, when
\* open was before them: a delimiter opens a string, the same delimiter closes
\* it, a hash sign outside a string makes the rest of the line a comment
RECURSIVE OpenAfter(_, _, _)
OpenAfter(open, stripped, k) ==
  IF k > Len(stripped) THEN open
  ELSE IF open = "None" /\ stripped[k] = "#" THEN open
  ELSE IF stripped[k] \in {"DQ3", "SQ3"} /\ open = "None"
  THEN OpenAfter(stripped[k], stripped, k + 1)
  ELSE IF stripped[k] = open THEN OpenAfter("None", stripped, k + 1)
  ELSE OpenAfter(open, stripped, k + 1)

\* the triple-quoted string that is open where line j of lines begins
RECURSIVE OpenAt(_, _)
OpenAt(lines, j) == IF j = 1 THEN "None" ELSE OpenAfter(OpenAt(lines, j - 1), lines[j - 1], 1)

\* line j lies inside a triple-quoted string, or holds the delimiter that
\* opens or closes one
InDocstring(lines, j) ==
  \/ OpenAt(lines, j) # "None"
  \/ OpenAfter("None", lines[j], 1) # "None"
  \/ \E k \in 1..Len(lines[j]) : OpenAfter("None", SubSeq(lines[j], 1, k), 1) # "None"

Analyzed == checker.k = Len(checker.lines)

\* C26 as claimed: once analyze_code_structure has gone through a file, every
\* line was added to exactly one of blank_lines, docstring_lines, comment_lines
\* and code_lines, so that the four add up to total_lines; a line was added to
\* docstring_lines only if it lies inside a triple-quoted string or holds its
\* opening or closing delimiter; and a statement that follows a docstring
\* opened and closed on one line was added to code_lines.
C26_LinePartition ==
  Analyzed =>
    /\ \A j \in 1..Len(checker.lines) :
         /\ checker.counted[j] \in {"blank_lines", "docstring_lines", "comment_lines",
                                    "code_lines"}
         /\ checker.counted[j] = "docstring_lines" => InDocstring(checker.lines, j)
         /\ (j > 1 /\ checker.lines[j] = <<"w">>
               /\ checker.lines[j - 1] = <<"DQ3", "w", "DQ3">>
               /\ OpenAt(checker.lines, j - 1) = "None") =>
              checker.counted[j] = "code_lines"
    /\ checker.blank_lines + checker.docstring_lines + checker.comment_lines
         + checker.code_lines = checker.total_lines
====
